---- MODULE Spec2Model ----
(***************************************************************************)
(* A model of the AI refinement pipeline of agent-os: the YouTube          *)
(* autocomplete route, the chapter refiner (fan-out + rewrite), the        *)
(* chapter generator and the client-side processVideo pipeline.            *)
(*                                                                         *)
(* Text is modelled as a sequence of tokens (punctuation, string literals, *)
(* numbers); JSON.parse, JSON.stringify, the code-fence stripping and the  *)
(* JSON-P regular expression are computed on those tokens.                 *)
(***************************************************************************)
EXTENDS Integers, Sequences, FiniteSets, TLC

VARIABLES
    \* ---- GET /api/autocomplete (src/app/api/autocomplete/route.ts)
    query,              \* searchParams.get("q"); "" when absent
    acUpstream,         \* what suggestqueries.google.com did for this request
    acResponse,         \* the NextResponse of the handler, NoResponse before
    acLog,              \* the requests served so far: [query, upstream, response]
    \* ---- POST /api/refine (src/app/api/tiktok/train/route.ts:102-185)
    chapters,           \* body.chapters of the request
    refinePc,           \* position of the handler
    fetchState,         \* per chapter index: state of the mapped async callback
    chaptersWithSuggestions, \* per chapter index: value its promise resolved to
    outOfOrder,         \* some fetch settled while one of a lower index was pending
    prompt,             \* the enriched list placed in the rewrite prompt
    modelOutcome,       \* what model.generateContent did for the rewrite prompt
    refineResponse,     \* the NextResponse of the handler
    \* ---- POST /api/analyze (src/app/api/analyze/route.ts:5-149)
    anReq,              \* the request body: fileUri, transcript, isGcsUri
    anEnv,              \* src/lib/gemini: isVertexAIConfigured(), genaiClient set
    anPc,               \* position of the handler
    fileState,          \* file.state as fileManager.getFile last reported it
    polls,              \* times the handler slept 2 s and asked again
    promptParts,        \* what the handler puts before the instructions
    backend,            \* the SDK the prompt was sent through
    anModel,            \* what generateContent did
    anResponse,         \* the NextResponse of the handler
    \* ---- POST /api/metadata (src/app/api/metadata/route.ts:4-160)
    mdReq,              \* the request body
    mdEnv,              \* src/lib/gemini: Vertex AI, vertexModel, genaiClient
    mdPc,               \* position of the handler
    mdFile,             \* file.state as fileManager.getFile last reported it
    mdPolls,            \* sleeps of the polling loop begun, up to MaxPolls
    suggestionsMap,     \* the suggestion map built from the seeds
    videoContext,       \* the text the metadata prompt is built on
    mdCalls,            \* the kinds of outbound call issued so far
    mdModel,            \* what the last generateContent did
    mdResponse,         \* the NextResponse of the handler
    \* ---- POST /api/transcribe (src/app/api/transcribe/route.ts)
    trReq,              \* the request body
    trEnv,              \* src/lib/gemini: Vertex AI, vertexModel
    trPc,               \* position of the handler
    trCalls,            \* the kinds of outbound call issued so far
    trTranscript,       \* the transcript local
    trResponse,         \* the NextResponse of the handler
    \* ---- processVideo and its view (src/app/page.tsx)
    isProduction,       \* not on localhost, and Firebase is configured
    activeTab,          \* "upload" or "youtube"
    file,               \* the dropped file, NoFile when null
    youtubeUrl,         \* the text of the URL input
    status,             \* the status state of the page
    uiChapters,         \* the chapters state of the page
    metadata,           \* the metadata state of the page, JNull at first
    clPc,               \* the await processVideo is suspended at, "idle" if none
    locals,             \* fileUri, mimeType, transcript, rawChapters, refinedChapters
    log,                \* the requests of this run with their responses
    stages,             \* the statuses set by this run, in order
    \* POST /api/upload (src/app/api/upload/route.ts)
    upPc,               \* where the handler is
    tempFilePath,       \* the handler's local: null or the path of its temp file
    disk,               \* the temp files on disk
    upResponse,
    \* ConnectSocials (src/app/components/ConnectSocials.tsx)
    isConnecting,       \* the state of that name
    attempts,           \* the handleConnect calls so far: pc, interval, timeout, popup
    \* POST /api/tiktok/train (src/app/api/tiktok/train/route.ts)
    historyFile,        \* data/tiktok_history.json: missing, or its entries
    trainReqs,          \* the requests in progress or answered
    \* POST /api/social/posts (src/app/api/social/posts/route.ts)
    postReq,            \* the request and the configuration it meets
    postPc,
    postData,           \* the data of the upstream's ok response
    firestore,          \* the ids of the documents in the posts collection
    postResponse

vars == <<query, acUpstream, acResponse, acLog,
          chapters, refinePc, fetchState, chaptersWithSuggestions,
          outOfOrder, prompt, modelOutcome, refineResponse,
          anReq, anEnv, anPc, fileState, polls, promptParts, backend, anModel,
          anResponse,
          mdReq, mdEnv, mdPc, mdFile, mdPolls, suggestionsMap, videoContext, mdCalls,
          mdModel, mdResponse,
          trReq, trEnv, trPc, trCalls, trTranscript, trResponse,
          isProduction, activeTab, file, youtubeUrl, status, uiChapters, metadata,
          clPc, locals, log, stages,
          upPc, tempFilePath, disk, upResponse,
          isConnecting, attempts,
          historyFile, trainReqs,
          postReq, postPc, postData, firestore, postResponse>>

upVars == <<upPc, tempFilePath, disk, upResponse>>
coVars == <<isConnecting, attempts>>
trainVars == <<historyFile, trainReqs>>
postVars == <<postReq, postPc, postData, firestore, postResponse>>
svcVars == <<upPc, tempFilePath, disk, upResponse, isConnecting, attempts,
             historyFile, trainReqs, postReq, postPc, postData, firestore, postResponse>>

acVars == <<query, acUpstream, acResponse, acLog>>
refineVars == <<chapters, refinePc, fetchState, chaptersWithSuggestions,
                outOfOrder, prompt, modelOutcome, refineResponse>>
anVars == <<anReq, anEnv, anPc, fileState, polls, promptParts, backend, anModel,
            anResponse>>
mdVars == <<mdReq, mdEnv, mdPc, mdFile, mdPolls, suggestionsMap, videoContext,
            mdCalls, mdModel, mdResponse,
            trReq, trEnv, trPc, trCalls, trTranscript, trResponse>>
clVars == <<isProduction, activeTab, file, youtubeUrl, status, uiChapters,
            metadata, clPc, locals, log, stages>>

-----------------------------------------------------------------------------
(* Bounds of the model *)

MaxChapters == 2
MaxRequests == 1
MaxPolls == 2

-----------------------------------------------------------------------------
(* JavaScript / JSON values *)

JStr(s) == [t |-> "str", s |-> s]
JNum(n) == [t |-> "num", n |-> n]
JArr(a) == [t |-> "arr", a |-> a]
JObj(o) == [t |-> "obj", o |-> o]          \* o: sequence of [key, val], in insertion order
JNull == [t |-> "null"]
Undefined == [t |-> "undefined"]
Member(k, v) == [key |-> k, val |-> v]

IsArray(v) == v.t = "arr"

\* obj[k] for an own property k of an object value
RECURSIVE Lookup(_, _)
Lookup(o, k) ==
    IF o = <<>> THEN Undefined
    ELSE IF o[Len(o)].key = k THEN o[Len(o)].val
    ELSE Lookup(SubSeq(o, 1, Len(o) - 1), k)

\* obj[k] = v on the member list: overwrite in place, or append
SetKey(o, k, v) ==
    IF \E i \in 1..Len(o) : o[i].key = k
    THEN [i \in 1..Len(o) |-> IF o[i].key = k THEN Member(k, v) ELSE o[i]]
    ELSE Append(o, Member(k, v))

-----------------------------------------------------------------------------
(* Text as tokens *)

P(c) == [k |-> "p", p |-> c]               \* punctuation or any other raw text
S(s) == [k |-> "s", s |-> s]               \* a JSON string literal "s"
N(n) == [k |-> "n", n |-> n]               \* a JSON number literal

WS == P(" ")
NL == P("\n")
IsSpace(tk) == tk = WS \/ tk = NL

\* JSON.stringify(v) (compact form); undefined in an array prints null,
\* a member whose value is undefined is left out
RECURSIVE Stringify(_)
RECURSIVE StringifyElems(_)
RECURSIVE StringifyMembers(_, _)
Stringify(v) ==
    CASE v.t = "str" -> <<S(v.s)>>
      [] v.t = "num" -> <<N(v.n)>>
      [] v.t = "null" -> <<P("null")>>
      [] v.t = "undefined" -> <<P("null")>>
      [] v.t = "arr" -> <<P("[")>> \o StringifyElems(v.a) \o <<P("]")>>
      [] v.t = "obj" -> <<P("{")>> \o StringifyMembers(v.o, TRUE) \o <<P("}")>>
StringifyElems(a) ==
    IF a = <<>> THEN <<>>
    ELSE Stringify(Head(a))
         \o (IF Len(a) > 1 THEN <<P(",")>> ELSE <<>>)
         \o StringifyElems(Tail(a))
StringifyMembers(o, first) ==
    IF o = <<>> THEN <<>>
    ELSE IF Head(o).val = Undefined THEN StringifyMembers(Tail(o), first)
    ELSE (IF first THEN <<>> ELSE <<P(",")>>)
         \o <<S(Head(o).key), P(":")>> \o Stringify(Head(o).val)
         \o StringifyMembers(Tail(o), FALSE)

\* JSON.parse(text): [ok |-> TRUE, v |-> value] or [ok |-> FALSE] (SyntaxError)
Throws == [ok |-> FALSE]
Ok(v) == [ok |-> TRUE, v |-> v]

RECURSIVE SkipSpace(_, _)
SkipSpace(text, i) ==
    IF i <= Len(text) /\ IsSpace(text[i]) THEN SkipSpace(text, i + 1) ELSE i

RECURSIVE ParseValue(_, _)
RECURSIVE ParseElems(_, _, _)
RECURSIVE ParseMembers(_, _, _)
ParseValue(text, i0) ==
    LET i == SkipSpace(text, i0) IN
    IF i > Len(text) THEN Throws
    ELSE LET tk == text[i] IN
         CASE tk.k = "s" -> [ok |-> TRUE, v |-> JStr(tk.s), i |-> i + 1]
           [] tk.k = "n" -> [ok |-> TRUE, v |-> JNum(tk.n), i |-> i + 1]
           [] tk = P("null") -> [ok |-> TRUE, v |-> JNull, i |-> i + 1]
           [] tk = P("[") ->
                LET j == SkipSpace(text, i + 1) IN
                IF j <= Len(text) /\ text[j] = P("]")
                THEN [ok |-> TRUE, v |-> JArr(<<>>), i |-> j + 1]
                ELSE ParseElems(text, i + 1, <<>>)
           [] tk = P("{") ->
                LET j == SkipSpace(text, i + 1) IN
                IF j <= Len(text) /\ text[j] = P("}")
                THEN [ok |-> TRUE, v |-> JObj(<<>>), i |-> j + 1]
                ELSE ParseMembers(text, i + 1, <<>>)
           [] OTHER -> Throws
ParseElems(text, i, acc) ==
    LET r == ParseValue(text, i) IN
    IF ~r.ok THEN Throws
    ELSE LET j == SkipSpace(text, r.i) IN
         IF j > Len(text) THEN Throws
         ELSE IF text[j] = P(",") THEN ParseElems(text, j + 1, Append(acc, r.v))
         ELSE IF text[j] = P("]")
              THEN [ok |-> TRUE, v |-> JArr(Append(acc, r.v)), i |-> j + 1]
         ELSE Throws
ParseMembers(text, i0, acc) ==
    LET i == SkipSpace(text, i0) IN
    IF i > Len(text) \/ text[i].k # "s" THEN Throws
    ELSE LET c == SkipSpace(text, i + 1) IN
         IF c > Len(text) \/ text[c] # P(":") THEN Throws
         ELSE LET r == ParseValue(text, c + 1) IN
              IF ~r.ok THEN Throws
              ELSE LET j == SkipSpace(text, r.i)
                       acc2 == SetKey(acc, text[i].s, r.v)
                   IN  IF j > Len(text) THEN Throws
                       ELSE IF text[j] = P(",") THEN ParseMembers(text, j + 1, acc2)
                       ELSE IF text[j] = P("}")
                            THEN [ok |-> TRUE, v |-> JObj(acc2), i |-> j + 1]
                       ELSE Throws

JSONparse(text) ==
    LET r == ParseValue(text, 1) IN
    IF r.ok /\ SkipSpace(text, r.i) > Len(text) THEN Ok(r.v) ELSE Throws

\* NextResponse.json(v) as the client reads it back: JSON.parse(JSON.stringify(v))
OnWire(v) == JSONparse(Stringify(v)).v

-----------------------------------------------------------------------------
(* Strings of the model and their characters (s[0], s[1] in JavaScript) *)

Chars(s) ==
    CASE s = "q" -> <<"q">>
      [] s = "a" -> <<"a">>
      [] s = "b" -> <<"b">>
      [] s = "demo" -> <<"d", "e", "m", "o">>
      [] s = "demo day" -> <<"d", "e", "m", "o", " ", "d", "a", "y">>

\* v[n] in JavaScript: Ok(value), or Throws (TypeError on null / undefined)
Index(v, n) ==
    CASE v.t = "arr" -> Ok(IF n + 1 <= Len(v.a) THEN v.a[n + 1] ELSE Undefined)
      [] v.t = "str" -> Ok(IF n + 1 <= Len(Chars(v.s)) THEN JStr(Chars(v.s)[n + 1])
                                                      ELSE Undefined)
      [] v.t = "num" -> Ok(Undefined)
      [] v.t = "obj" -> Ok(Lookup(v.o, IF n = 0 THEN "0" ELSE "1"))
      [] v.t = "null" -> Throws
      [] v.t = "undefined" -> Throws

-----------------------------------------------------------------------------
(* The upstream autocomplete service, suggestqueries.google.com *)

Queries == {"q", "demo"}

\* what YouTube suggests for a query, in relevance order
Suggest(q) == IF q = "q" THEN <<"a", "b">> ELSE <<"demo day">>

Pairs(q) == [i \in 1..Len(Suggest(q)) |-> JArr(<<JStr(Suggest(q)[i]), JNum(0)>>)]
Flat(q) == [i \in 1..Len(Suggest(q)) |-> JStr(Suggest(q)[i])]

ENV == P("window.google.ac.h(")
RP == P(")")

\* window.google.ac.h(["q",[["a",0],["b",0]]])
EnvelopeBody(q) == <<ENV>> \o Stringify(JArr(<<JStr(q), JArr(Pairs(q))>>)) \o <<RP>>
\* ["q",[["a",0],["b",0]]]
BarePairsBody(q) == Stringify(JArr(<<JStr(q), JArr(Pairs(q))>>))
\* ["q",["a","b"]]   (the client=firefox form)
BareFlatBody(q) == Stringify(JArr(<<JStr(q), JArr(Flat(q))>>))

OtherBodies(q) ==
    { <<ENV>> \o Stringify(JArr(<<JStr(q), JArr(Flat(q))>>)) \o <<RP>>,
      <<ENV, P("["), S(q), P(","), RP>>,
      <<ENV>> \o Stringify(JArr(<<JStr(q)>>)) \o <<RP>>,
      <<ENV, P("null"), RP>>,
      <<ENV, S(q), RP>>,
      <<ENV, RP>>,
      <<ENV>> \o Stringify(JArr(<<JStr(q), JArr(Pairs(q))>>)),
      EnvelopeBody(q) \o <<NL, P("<br>"), RP>>,
      <<P("<html>")>>,
      <<>>,
      Stringify(JObj(<<Member("error", JStr(q))>>)),
      Stringify(JArr(<<JStr(q)>>)),
      Stringify(JArr(<<JStr(q), JNum(0)>>)) }

\* bodies that come with an error status (429 Too Many Requests)
ErrorStatusBodies(q) ==
    { <<P("<html>")>>,
      Stringify(JObj(<<Member("error", JStr(q))>>)),
      EnvelopeBody(q) }

NoCall == [kind |-> "none"]
NetworkError == [kind |-> "error"]        \* fetch() or res.text() rejects
Responded(st, text) == [kind |-> "response", status |-> st, text |-> text]

UpstreamOutcomes(q) ==
    {NetworkError}
    \cup {Responded(200, text) : text \in {EnvelopeBody(q), BarePairsBody(q), BareFlatBody(q)}
                                            \cup OtherBodies(q)}
    \cup {Responded(429, text) : text \in ErrorStatusBodies(q)}

-----------------------------------------------------------------------------
(* text.match of the JSON-P envelope: the literal window.google.ac.h, an open
   parenthesis, a greedy capture within one line, a close parenthesis *)

\* [ok |-> FALSE] for null; otherwise g1 is match[1], the greedy capture
Match(text) ==
    LET \* "." does not match a line terminator
        NoNewline(i, j) == \A m \in (i + 1)..(j - 1) : text[m] # NL
        Closers(i) == {j \in (i + 1)..Len(text) : text[j] = RP /\ NoNewline(i, j)}
        SetMin(xs) == CHOOSE x \in xs : \A y \in xs : x <= y
        SetMax(xs) == CHOOSE x \in xs : \A y \in xs : x >= y
        starts == {i \in 1..Len(text) : text[i] = ENV /\ Closers(i) # {}}
    IN  IF starts = {} THEN [ok |-> FALSE, g1 |-> <<>>]
        ELSE LET i == SetMin(starts)
                 j == SetMax(Closers(i))
             IN  [ok |-> TRUE, g1 |-> SubSeq(text, i + 1, j - 1)]

\* data[1] taken without the map over its items
MapFirstUnmapped(data) ==
    LET d1 == Index(data, 1) IN
    IF ~d1.ok THEN Throws
    ELSE IF ~IsArray(d1.v) THEN Throws
    ELSE Ok(d1.v)

\* data[1].map((item) => item[0]): Ok(array) or Throws (TypeError)
RECURSIVE MapItem0(_)
MapItem0(items) ==
    IF items = <<>> THEN Ok(<<>>)
    ELSE LET h == Index(Head(items), 0)
             r == MapItem0(Tail(items))
         IN  IF h.ok /\ r.ok THEN Ok(<<h.v>> \o r.v) ELSE Throws

MapFirst(data) ==
    LET d1 == Index(data, 1) IN
    IF ~d1.ok THEN Throws
    ELSE IF ~IsArray(d1.v) THEN Throws
    ELSE LET r == MapItem0(d1.v.a) IN
         IF r.ok THEN Ok(JArr(r.v)) ELSE Throws

-----------------------------------------------------------------------------
(* GET /api/autocomplete *)

NoResponse == [status |-> 0]
Json(st, body) == [status |-> st, body |-> OnWire(body)]

SuggestionsBody(v) == JObj(<<Member("suggestions", v)>>)
ErrorBody(msg) == JObj(<<Member("error", JStr(msg))>>)

\* the try block of GET once fetch has settled with outcome up
AutocompleteTry(up) ==
    IF up.kind = "error" THEN Throws
    ELSE LET text == up.text
             match == Match(text)
         IN  IF match.ok /\ match.g1 # <<>>
             THEN LET data == JSONparse(match.g1) IN
                  IF ~data.ok THEN Throws
                  ELSE LET suggestions == MapFirst(data.v) IN
                       IF ~suggestions.ok THEN Throws
                       ELSE Ok(Json(200, SuggestionsBody(suggestions.v)))
             ELSE LET data == JSONparse(text) IN
                  IF data.ok /\ IsArray(data.v) /\ Len(data.v.a) > 1
                  THEN Ok(Json(200, SuggestionsBody(data.v.a[2])))
                  ELSE Ok(Json(200, SuggestionsBody(JArr(<<>>))))

\* a handler that serves upstream suggestions only until it has answered once
GETOnce(q, up) ==
    IF q = "" \/ acLog # <<>> THEN Json(200, SuggestionsBody(JArr(<<>>)))
    ELSE IF AutocompleteTry(up).ok THEN AutocompleteTry(up).v
    ELSE Json(500, ErrorBody("Autocomplete failed"))

\* the handler; its catch answers 500
GET(q, up) ==
    IF q = "" THEN Json(200, SuggestionsBody(JArr(<<>>)))
    ELSE IF AutocompleteTry(up).ok THEN AutocompleteTry(up).v
    ELSE Json(500, ErrorBody("Autocomplete failed"))

\* the upload handler, the ConnectSocials component, the train handler with
\* its history file and the posts handler with its collection, before anything
\* has happened ("null" stands for JavaScript's null); files are the contents
\* data/tiktok_history.json may have when the server process starts
ServicesInit(files) ==
    /\ upPc = [at |-> "idle", n |-> 0, path |-> ""]
    /\ tempFilePath = "null"
    /\ disk = {}
    /\ upResponse = NoResponse
    /\ isConnecting = FALSE
    /\ attempts = <<>>
    /\ historyFile \in files
    /\ trainReqs = <<>>
    /\ postReq = Undefined
    /\ postPc = "idle"
    /\ postData = Undefined
    /\ firestore = {}
    /\ postResponse = NoResponse

RefineIdle ==
    /\ chapters = Undefined
    /\ refinePc = "off"
    /\ fetchState = <<>>
    /\ chaptersWithSuggestions = <<>>
    /\ outOfOrder = FALSE
    /\ prompt = Undefined
    /\ modelOutcome = NoCall
    /\ refineResponse = NoResponse

AnIdle ==
    /\ anReq = Undefined
    /\ anEnv = Undefined
    /\ anPc = "off"
    /\ fileState = ""
    /\ polls = 0
    /\ promptParts = Undefined
    /\ backend = ""
    /\ anModel = NoCall
    /\ anResponse = NoResponse

\* no metadata request and no transcribe request in progress
MdIdle ==
    /\ mdReq = Undefined
    /\ mdEnv = Undefined
    /\ mdPc = "off"
    /\ mdFile = ""
    /\ mdPolls = 0
    /\ suggestionsMap = Undefined
    /\ videoContext = Undefined
    /\ mdCalls = {}
    /\ mdModel = NoCall
    /\ mdResponse = NoResponse
    /\ trReq = Undefined
    /\ trEnv = Undefined
    /\ trPc = "off"
    /\ trCalls = {}
    /\ trTranscript = Undefined
    /\ trResponse = NoResponse

NoFile == [size |-> "none"]

ClIdle ==
    /\ isProduction = FALSE
    /\ activeTab = "upload"
    /\ file = NoFile
    /\ youtubeUrl = ""
    /\ status = "idle"
    /\ uiChapters = JArr(<<>>)
    /\ metadata = JNull
    /\ clPc = "idle"
    /\ locals = Undefined
    /\ log = <<>>
    /\ stages = <<>>

AcInit ==
    /\ query \in Queries \cup {""}
    /\ acUpstream = NoCall
    /\ acResponse = NoResponse
    /\ acLog = <<>>
    /\ RefineIdle
    /\ AnIdle
    /\ ClIdle
    /\ ServicesInit({[state |-> "missing", entries |-> <<>>]})
    /\ MdIdle

\* a request without q: answered before any fetch
AcNoQuery ==
    /\ acResponse = NoResponse
    /\ query = ""
    /\ acResponse' = GET(query, NoCall)
    /\ UNCHANGED <<query, acUpstream, acLog>>
    /\ UNCHANGED <<refineVars, anVars, clVars, mdVars, svcVars>>

\* the fetch settles and the handler answers
AcFetch ==
    /\ acResponse = NoResponse
    /\ query # ""
    /\ \E up \in UpstreamOutcomes(query) :
          /\ acUpstream' = up
          /\ acResponse' = GET(query, up)
    /\ UNCHANGED <<query, acLog>>
    /\ UNCHANGED <<refineVars, anVars, clVars, mdVars, svcVars>>

\* the handler keeps nothing between requests: the next request starts afresh.
\* acLog remembers up to MaxRequests of the requests served, and for each
\* whether another request was served after it and before the current one.
AcNextRequest ==
    /\ acResponse # NoResponse
    /\ \/ /\ Len(acLog) < MaxRequests
          /\ acLog' = Append(acLog, [query |-> query, upstream |-> acUpstream,
                                      response |-> acResponse, later |-> FALSE])
       \/ /\ acLog # <<>>
          /\ acLog' = [i \in 1..Len(acLog) |-> [acLog[i] EXCEPT !.later = TRUE]]
    /\ query' \in Queries \cup {""}
    /\ acUpstream' = NoCall
    /\ acResponse' = NoResponse
    /\ UNCHANGED <<refineVars, anVars, clVars, mdVars, svcVars>>

AcNext == AcNoQuery \/ AcFetch \/ AcNextRequest

SpecAutocomplete == AcInit /\ [][AcNext]_vars

-----------------------------------------------------------------------------
(* POST /api/refine: request bodies *)

Titles == Queries
Times == <<"0:00", "1:30", "2:45", "4:10">>

Chapter(time, title) == JObj(<<Member("time", JStr(time)), Member("title", JStr(title))>>)

\* the chapter lists of length n: any titles, times by position
ChapterLists(n) ==
    {JArr([i \in 1..n |-> Chapter(Times[i], ts[i])]) : ts \in [1..n -> Titles]}

\* body.chapters of a request: a chapter list, or something that is no array
RefineBodies ==
    {Undefined, JNull, JObj(<<Member("chapters", JArr(<<>>))>>)} \cup UNION {ChapterLists(n) : n \in 0..MaxChapters}

-----------------------------------------------------------------------------
(* POST /api/refine: the inline suggestion fetcher of the fan-out *)

\* the value of suggestions when the callback's try block completes, or Throws
InlineTry(up) ==
    IF up.kind = "error" THEN Throws
    ELSE LET text == up.text
             match == Match(text)
         IN  IF match.ok /\ match.g1 # <<>>
             THEN LET data == JSONparse(match.g1) IN
                  IF ~data.ok THEN Throws ELSE MapFirst(data.v)
             ELSE LET data == JSONparse(text) IN
                  IF data.ok /\ IsArray(data.v) /\ Len(data.v.a) > 1
                  THEN Ok(data.v.a[2])
                  ELSE Ok(JArr(<<>>))

\* catch (e) { return { ...chapter, suggestions: [] } }
InlineSuggestions(up) ==
    LET r == InlineTry(up) IN IF r.ok THEN r.v ELSE JArr(<<>>)

\* { ...chapter, suggestions }
Enrich(chapter, up) ==
    JObj(SetKey(chapter.o, "suggestions", InlineSuggestions(up)))

\* how a suggestion call failed, if it did
FailureOf(up) ==
    LET Unparsable(text) ==
            LET match == Match(text) IN
            IF match.ok /\ match.g1 # <<>> THEN ~JSONparse(match.g1).ok
            ELSE ~JSONparse(text).ok
    IN  IF up.kind = "error" THEN "network"
        ELSE IF up.status # 200 THEN "status"
        ELSE IF Unparsable(up.text) THEN "unparsable"
        ELSE "none"

-----------------------------------------------------------------------------
(* POST /api/refine: the rewrite model *)

\* the list a well-behaved model returns: same times, titles rewritten
Rewritten(list) ==
    LET TitleCase(title) == IF title = "q" THEN "Q" ELSE "Demo" IN
    JArr([i \in 1..Len(list.a) |->
            Chapter(Lookup(list.a[i].o, "time").s,
                    TitleCase(Lookup(list.a[i].o, "title").s))])

\* the example of the prompt, which a model may echo
PromptExample ==
    JArr(<<Chapter("0:00", "Introduction to Gemini 3.0"),
           Chapter("1:30", "Advanced Coding Features")>>)

FENCE == P("<fence>")                  \* three backquotes
FENCEJSON == P("<fence>json")          \* three backquotes and the word json
Fenced(text) == <<FENCEJSON, NL>> \o text \o <<NL, FENCE>>

ModelThrows == [kind |-> "error"]
ModelSays(text) == [kind |-> "text", text |-> text]

\* what the model may answer to a rewrite prompt for list
RewriteTexts(list) ==
    LET good == Stringify(Rewritten(list))
        Reverse(a) == [i \in 1..Len(a) |-> a[Len(a) + 1 - i]]
    IN
    { good,
      Fenced(good),
      <<WS>> \o good \o <<NL>>,
      SubSeq(good, 1, Len(good) - 1),
      <<P("Here are the refined chapters:"), NL>> \o good,
      <<>>,
      Stringify(PromptExample),
      Stringify(JArr(Reverse(Rewritten(list).a))),
      Stringify(JArr(Rewritten(list).a \o <<Chapter("9:99", "Outro")>>)),
      Stringify(JArr(IF list.a = <<>> THEN <<>> ELSE Tail(Rewritten(list).a))),
      Stringify(JObj(<<Member("chapters", Rewritten(list))>>)),
      Stringify(JNull) }

ModelOutcomes(list) == {ModelThrows} \cup {ModelSays(text) : text \in RewriteTexts(list)}

\* String.prototype.trim on the spaces and line breaks of the token model
Trim(text) ==
    LET RECURSIVE TrimEnd(_)
        TrimEnd(t) ==
            IF t # <<>> /\ IsSpace(t[Len(t)])
            THEN TrimEnd(SubSeq(t, 1, Len(t) - 1)) ELSE t
    IN  TrimEnd(SubSeq(text, SkipSpace(text, 1), Len(text)))

\* responseText.replace(fence-json, "").replace(fence, "").trim(), both global
CleanText(responseText) ==
    LET RECURSIVE Remove(_, _)
        Remove(text, tk) ==
            IF text = <<>> THEN <<>>
            ELSE IF Head(text) = tk THEN Remove(Tail(text), tk)
            ELSE <<Head(text)>> \o Remove(Tail(text), tk)
    IN  Trim(Remove(Remove(responseText, FENCEJSON), FENCE))

\* a fallback that drops the input, as the chapter generator's does
RefinedChaptersOrNone(list, responseText) ==
    LET parsed == JSONparse(CleanText(responseText)) IN
    IF parsed.ok THEN parsed.v ELSE JArr(<<>>)

\* try { refinedChapters = JSON.parse(cleanedText) } catch { refinedChapters = chapters }
RefinedChapters(list, responseText) ==
    LET parsed == JSONparse(CleanText(responseText)) IN
    IF parsed.ok THEN parsed.v ELSE list

ChaptersBody(v) == JObj(<<Member("chapters", v)>>)

\* the handler from the model call on
RefineFinish(list, m) ==
    IF m.kind = "error" THEN Json(500, ErrorBody("Refinement failed"))
    ELSE Json(200, ChaptersBody(RefinedChapters(list, m.text)))

\* if (!chapters || !Array.isArray(chapters))
ValidChapters(body) == body # Undefined /\ body # JNull /\ IsArray(body)

-----------------------------------------------------------------------------
(* POST /api/refine: the handler, step by step *)

AcIdle ==
    /\ query = ""
    /\ acUpstream = NoCall
    /\ acResponse = NoResponse
    /\ acLog = <<>>

\* the whole program before any request: no handler is running, the client is
\* idle, and the history file is one of files
AllIdle(files) ==
    /\ AcIdle
    /\ RefineIdle
    /\ AnIdle
    /\ ClIdle
    /\ MdIdle
    /\ ServicesInit(files)


Fetching(q) == [st |-> "fetching", q |-> q, failure |-> "none"]
Settled(q, up) == [st |-> "settled", q |-> q, failure |-> FailureOf(up)]

\* results collected in the order the promises settle
SlotByCompletion(i, fs) == 1 + Cardinality({j \in 1..Len(fs) : fs[j].st = "settled"})

\* Promise.all keeps each result at the index of its promise
SlotOf(i, fs) == i

\* Promise.all resolves once every promise has
Joined(fs) == \A i \in 1..Len(fs) : fs[i].st = "settled"

RefineInit ==
    /\ chapters \in RefineBodies
    /\ refinePc = "start"
    /\ fetchState = <<>>
    /\ chaptersWithSuggestions = <<>>
    /\ outOfOrder = FALSE
    /\ prompt = Undefined
    /\ modelOutcome = NoCall
    /\ refineResponse = NoResponse
    /\ AcIdle
    /\ AnIdle
    /\ ClIdle
    /\ ServicesInit({[state |-> "missing", entries |-> <<>>]})
    /\ MdIdle

\* the body is no array: 400 before anything else happens
RefineReject ==
    /\ refinePc = "start"
    /\ ~ValidChapters(chapters)
    /\ refineResponse' = Json(400, ErrorBody("Invalid chapters data"))
    /\ refinePc' = "done"
    /\ UNCHANGED <<chapters, fetchState, chaptersWithSuggestions, outOfOrder, prompt,
                   modelOutcome>>
    /\ UNCHANGED <<acVars, anVars, clVars, mdVars, svcVars>>

\* chapters.map(async ...): every callback runs up to its fetch, in index order
RefineFanOut ==
    /\ refinePc = "start"
    /\ ValidChapters(chapters)
    /\ fetchState' = [i \in 1..Len(chapters.a) |->
                        Fetching(Lookup(chapters.a[i].o, "title").s)]
    /\ chaptersWithSuggestions' = [i \in 1..Len(chapters.a) |-> Undefined]
    /\ refinePc' = "fanout"
    /\ UNCHANGED <<chapters, outOfOrder, prompt, modelOutcome, refineResponse>>
    /\ UNCHANGED <<acVars, anVars, clVars, mdVars, svcVars>>

\* the fetch of callback i settles (in any order) and the callback returns
FetchSettle(i) ==
    /\ refinePc = "fanout"
    /\ fetchState[i].st = "fetching"
    /\ \E up \in UpstreamOutcomes(fetchState[i].q) :
          /\ fetchState' = [fetchState EXCEPT ![i] = Settled(fetchState[i].q, up)]
          /\ chaptersWithSuggestions' =
                [chaptersWithSuggestions EXCEPT
                    ![SlotOf(i, fetchState)] = Enrich(chapters.a[i], up)]
    /\ outOfOrder' = (outOfOrder \/ \E j \in 1..(i - 1) : fetchState[j].st = "fetching")
    /\ UNCHANGED <<chapters, refinePc, prompt, modelOutcome, refineResponse>>
    /\ UNCHANGED <<acVars, anVars, clVars, mdVars, svcVars>>

\* await Promise.all(...) resumes; the prompt is built and the model is called
RefineRewrite ==
    /\ refinePc = "fanout"
    /\ Joined(fetchState)
    /\ prompt' = OnWire(JArr(chaptersWithSuggestions))
    /\ refinePc' = "model"
    /\ UNCHANGED <<chapters, fetchState, chaptersWithSuggestions, outOfOrder,
                   modelOutcome, refineResponse>>
    /\ UNCHANGED <<acVars, anVars, clVars, mdVars, svcVars>>

\* model.generateContent settles and the handler answers
RefineAnswer ==
    /\ refinePc = "model"
    /\ \E m \in ModelOutcomes(chapters) :
          /\ modelOutcome' = m
          /\ refineResponse' = RefineFinish(chapters, m)
    /\ refinePc' = "done"
    /\ UNCHANGED <<chapters, fetchState, chaptersWithSuggestions, outOfOrder, prompt>>
    /\ UNCHANGED <<acVars, anVars, clVars, mdVars, svcVars>>

RefineNext ==
    \/ RefineReject
    \/ RefineFanOut
    \/ \E i \in 1..Len(fetchState) : FetchSettle(i)
    \/ RefineRewrite
    \/ RefineAnswer

SpecRefine == RefineInit /\ [][RefineNext]_vars

-----------------------------------------------------------------------------
(* Claims about the chapter refiner (SpecRefine) *)

RefinedOut == Lookup(refineResponse.body.o, "chapters")
TimeOf(chapter) == Lookup(chapter.o, "time")
TitleOf(chapter) == Lookup(chapter.o, "title")
SuggestionsOf(chapter) == Lookup(chapter.o, "suggestions")

Answered == refinePc = "done" /\ modelOutcome.kind = "text"
RewriteUnparsable == ~JSONparse(CleanText(modelOutcome.text)).ok

\* C1: whatever the model answers, the list the refiner returns has the length of
\* the list it was given and its i-th entry is the i-th input chapter (same time).
C1_SameLengthSameOrder ==
    Answered =>
        /\ refineResponse.status = 200
        /\ IsArray(RefinedOut)
        /\ Len(RefinedOut.a) = Len(chapters.a)
        /\ \A i \in 1..Len(chapters.a) :
              /\ RefinedOut.a[i].t = "obj"
              /\ TimeOf(RefinedOut.a[i]) = TimeOf(chapters.a[i])

\* C2: when the rewrite response does not parse as JSON after fence stripping,
\* the refiner answers 200 with exactly the chapters it received.
C2_ParseFailureReturnsInput ==
    (Answered /\ RewriteUnparsable) =>
        /\ refineResponse.status = 200
        /\ RefinedOut = chapters

C2_Witness ==
    /\ Answered
    /\ RewriteUnparsable
    /\ modelOutcome.text # <<>>
    /\ Len(chapters.a) = 2
    /\ TitleOf(chapters.a[1]) # TitleOf(chapters.a[2])
    /\ RefinedOut = chapters

\* C3: an empty chapters array returns an empty array, without error, whatever
\* the model answers.
C3_EmptyInEmptyOut ==
    (Answered /\ chapters = JArr(<<>>)) =>
        /\ refineResponse.status = 200
        /\ RefinedOut = JArr(<<>>)

\* C4: a suggestion call that fails (network error, bad status, unparsable body)
\* gives its chapter an empty suggestion list, leaves the other chapters'
\* suggestions alone and does not abort the request.
C4_FailureIsolated ==
    /\ refineResponse.status # 500 \/ modelOutcome.kind = "error"
    /\ \A i \in 1..Len(fetchState) :
          (fetchState[i].st = "settled" /\ fetchState[i].failure # "none") =>
              /\ chaptersWithSuggestions[i] # Undefined
              /\ SuggestionsOf(chaptersWithSuggestions[i]) = JArr(<<>>)

\* the suggestion values that the upstream's answers to a title can give
OwnSuggestions(title) ==
    {OnWire(InlineSuggestions(up)) : up \in UpstreamOutcomes(title)}

\* C5: the rewrite call is issued only after all N suggestion calls have
\* finished, and the list in its prompt has at index i the i-th input chapter
\* with the suggestions fetched for that chapter's own title.
C5_JoinedAndAligned ==
    (prompt # Undefined) =>
        /\ Joined(fetchState)
        /\ IsArray(prompt)
        /\ Len(prompt.a) = Len(chapters.a)
        /\ \A i \in 1..Len(chapters.a) :
              /\ prompt.a[i].t = "obj"
              /\ TimeOf(prompt.a[i]) = TimeOf(chapters.a[i])
              /\ TitleOf(prompt.a[i]) = TitleOf(chapters.a[i])
              /\ SuggestionsOf(prompt.a[i]) \in OwnSuggestions(TitleOf(chapters.a[i]).s)

C5_Witness ==
    /\ prompt # Undefined
    /\ outOfOrder
    /\ Len(chapters.a) = 2
    /\ TitleOf(chapters.a[1]).s = "demo"
    /\ TitleOf(chapters.a[2]).s = "q"
    /\ SuggestionsOf(prompt.a[1]) = JArr(Flat("demo"))
    /\ SuggestionsOf(prompt.a[2]) = JArr(Flat("q"))

-----------------------------------------------------------------------------
(* Claims about the suggestion fetcher (SpecAutocomplete) *)

AcSuggestions == Lookup(acResponse.body.o, "suggestions")
AcServed == acResponse # NoResponse /\ query # "" /\ acUpstream # NoCall

\* C6: for a non-empty query, a network error, a non-200 status or an unparsable
\* response yields an empty suggestion list, as a successful result.
C6_NeverFailsCaller ==
    (AcServed /\ FailureOf(acUpstream) # "none") =>
        /\ acResponse.status = 200
        /\ AcSuggestions = JArr(<<>>)

IsEnvelopeForm == acUpstream.kind = "response" /\ acUpstream.text = EnvelopeBody(query)
IsBarePairsForm == acUpstream.kind = "response" /\ acUpstream.text = BarePairsBody(query)

-----------------------------------------------------------------------------
(* POST /api/analyze: requests and configuration *)

GsUri == "gs://bucket/videos/clip.mp4"
FileApiUri == "https://generativelanguage.googleapis.com/v1beta/files/abc123"

\* a test that takes every value, absent ones too, for present
TruthyAlways(v) == TRUE

\* JavaScript truthiness of a JSON value
Truthy(v) ==
    CASE v.t = "undefined" -> FALSE
      [] v.t = "null" -> FALSE
      [] v.t = "str" -> v.s # ""
      [] v.t = "num" -> v.n # 0
      [] OTHER -> TRUE

\* a transcript of two segments { start, text }
Transcript ==
    LET Segment(start, text) ==
            JObj(<<Member("start", JNum(start)), Member("text", JStr(text))>>)
    IN  JArr(<<Segment(0, "demo"), Segment(5, "demo day")>>)

\* a transcript whose one segment has 2^14 * 10 = 163,840 characters of text
LongTranscript ==
    LET RECURSIVE Doubled(_, _)
        Doubled(str, n) == IF n = 0 THEN str ELSE Doubled(str \o str, n - 1)
    IN  JArr(<<JObj(<<Member("start", JNum(0)),
                      Member("text", JStr(Doubled("demo day. ", 14)))>>)>>)

AnalyzeRequests ==
    [fileUri : {Undefined, JStr(GsUri), JStr(FileApiUri)},
     mimeType : {Undefined, JStr("video/mp4")},
     transcript : {Undefined, JArr(<<>>), Transcript, LongTranscript, JStr("demo")},
     isGcsUri : BOOLEAN]

\* isVertexAIConfigured(), vertexModel set (only if Vertex AI is), genaiClient set
Environments ==
    {e \in [vertex : BOOLEAN, vertexModel : BOOLEAN, genai : BOOLEAN] :
        e.vertexModel => e.vertex}

\* a rendering that joins the lines last segment first
TranscriptTextReversed(transcript) ==
    IF ~IsArray(transcript) THEN Throws
    ELSE LET line(t) == <<P("["), N(Lookup(t.o, "start").n), P("s] "),
                          P(Lookup(t.o, "text").s)>>
             RECURSIVE join(_)
             join(ts) == IF ts = <<>> THEN <<>>
                         ELSE IF Len(ts) = 1 THEN line(ts[1])
                         ELSE join(Tail(ts)) \o <<NL>> \o line(ts[1])
         IN  Ok(join(transcript.a))

\* transcript.map(t => "[" + t.start + "s] " + t.text).join("\n"), or a TypeError
TranscriptText(transcript) ==
    IF ~IsArray(transcript) THEN Throws
    ELSE LET line(t) == <<P("["), N(Lookup(t.o, "start").n), P("s] "),
                          P(Lookup(t.o, "text").s)>>
             RECURSIVE join(_)
             join(ts) == IF ts = <<>> THEN <<>>
                         ELSE IF Len(ts) = 1 THEN line(ts[1])
                         ELSE line(ts[1]) \o <<NL>> \o join(Tail(ts))
         IN  Ok(join(transcript.a))

\* a branch selection that takes Vertex AI to be configured
RouteUnchecked(req, env) ==
    LET StartsWith(str, prefix) ==
            Len(str) >= Len(prefix) /\ SubSeq(str, 1, Len(prefix)) = prefix
        gcs == req.isGcsUri \/ StartsWith(req.fileUri.s, "gs://")
    IN
    IF ~Truthy(req.fileUri) /\ ~Truthy(req.transcript) THEN "invalid"
    ELSE IF Truthy(req.transcript) THEN "transcript"
    ELSE IF gcs THEN "vertex"
    ELSE "fileApi"

\* the branch of the handler a request takes
Route(req, env) ==
    LET StartsWith(str, prefix) ==
            Len(str) >= Len(prefix) /\ SubSeq(str, 1, Len(prefix)) = prefix
        gcs == req.isGcsUri \/ StartsWith(req.fileUri.s, "gs://")
    IN
    IF ~Truthy(req.fileUri) /\ ~Truthy(req.transcript) THEN "invalid"
    ELSE IF Truthy(req.transcript) THEN "transcript"
    ELSE IF gcs /\ env.vertex THEN "vertex"
    ELSE IF gcs THEN "misconfigured"
    ELSE "fileApi"

-----------------------------------------------------------------------------
(* POST /api/analyze: the chapter generator *)

GeneratedChapters == JArr(<<Chapter("0:00", "q"), Chapter("1:30", "demo")>>)

\* what the model may answer to the chapter prompt
GeneratorTexts ==
    LET good == Stringify(GeneratedChapters) IN
    { good,
      Fenced(good),
      Stringify(JArr(<<>>)),
      SubSeq(good, 1, Len(good) - 1),
      <<P("Here are the chapters:"), NL>> \o good,
      <<P("I cannot watch videos.")>>,
      <<>>,
      Stringify(JObj(<<Member("chapters", GeneratedChapters)>>)),
      Stringify(JArr(<<Chapter("0:00", "q"), Chapter("80:34", "demo")>>)),
      Stringify(JNull) }

GeneratorOutcomes == {ModelThrows} \cup {ModelSays(text) : text \in GeneratorTexts}

\* try { chapters = JSON.parse(cleanedText) } catch { chapters = [] }
GeneratedOrEmpty(responseText) ==
    LET parsed == JSONparse(CleanText(responseText)) IN
    IF parsed.ok THEN parsed.v ELSE JArr(<<>>)

AnalysisFailed == Json(500, ErrorBody("Analysis failed"))

\* a handler whose JSON.parse is not guarded: the exception reaches the outer catch
AnalyzeFinishUnguarded(m) ==
    IF m.kind = "error" \/ ~JSONparse(CleanText(m.text)).ok THEN AnalysisFailed
    ELSE Json(200, ChaptersBody(JSONparse(CleanText(m.text)).v))

\* the handler from the model call on
AnalyzeFinish(m) ==
    IF m.kind = "error" THEN AnalysisFailed
    ELSE Json(200, ChaptersBody(GeneratedOrEmpty(m.text)))

-----------------------------------------------------------------------------
(* POST /api/analyze: the handler, step by step *)

AnalyzeInit ==
    /\ anReq \in AnalyzeRequests
    /\ anEnv \in Environments
    /\ anPc = "start"
    /\ fileState = ""
    /\ polls = 0
    /\ promptParts = Undefined
    /\ backend = ""
    /\ anModel = NoCall
    /\ anResponse = NoResponse
    /\ AcIdle
    /\ RefineIdle
    /\ ClIdle
    /\ ServicesInit({[state |-> "missing", entries |-> <<>>]})
    /\ MdIdle

\* neither fileUri nor transcript: 400; a gs:// file without Vertex AI: 500
AnalyzeReject ==
    /\ anPc = "start"
    /\ Route(anReq, anEnv) \in {"invalid", "misconfigured"}
    /\ anResponse' =
          IF Route(anReq, anEnv) = "invalid"
          THEN Json(400, ErrorBody("No file URI or transcript provided"))
          ELSE Json(500, ErrorBody("Server configuration error"))
    /\ anPc' = "done"
    /\ UNCHANGED <<anReq, anEnv, fileState, polls, promptParts, backend, anModel>>
    /\ UNCHANGED <<acVars, refineVars, clVars, mdVars, svcVars>>

\* the prompt is built from the transcript, or from the gs:// file for Vertex AI
AnalyzePrompt ==
    /\ anPc = "start"
    /\ Route(anReq, anEnv) \in {"transcript", "vertex"}
    /\ IF Route(anReq, anEnv) = "vertex"
       THEN /\ promptParts' = [fileUri |-> anReq.fileUri,
                               mimeType |-> IF Truthy(anReq.mimeType) THEN anReq.mimeType
                                            ELSE JStr("video/mp4")]
            /\ anPc' = "model"
            /\ UNCHANGED anResponse
       ELSE IF TranscriptText(anReq.transcript).ok
       THEN /\ promptParts' = [text |-> TranscriptText(anReq.transcript).v]
            /\ anPc' = "model"
            /\ UNCHANGED anResponse
       ELSE /\ anResponse' = AnalysisFailed
            /\ anPc' = "done"
            /\ UNCHANGED promptParts
    /\ UNCHANGED <<anReq, anEnv, fileState, polls, backend, anModel>>
    /\ UNCHANGED <<acVars, refineVars, clVars, mdVars, svcVars>>

\* a reading of file.state without the while loop
FileVerdictNoWait(state) == IF state = "FAILED" THEN "failed" ELSE "ready"

\* while (file.state === "PROCESSING") ...; if (file.state === "FAILED") ...
FileVerdict(state) ==
    CASE state = "PROCESSING" -> "wait"
      [] state = "FAILED" -> "failed"
      [] OTHER -> "ready"

FileStates == {"PROCESSING", "ACTIVE", "FAILED"}

\* fileManager.getFile settles: the first call, or a call of the loop.
\* polls counts the sleeps begun, up to MaxPolls.
AnalyzeGetFile ==
    /\ \/ anPc = "start" /\ Route(anReq, anEnv) = "fileApi"
       \/ anPc = "poll"
    /\ \/ /\ anResponse' = AnalysisFailed            \* getFile rejects
          /\ anPc' = "done"
          /\ UNCHANGED <<fileState, polls, promptParts>>
       \/ \E st \in FileStates :
             /\ fileState' = st
             /\ CASE FileVerdict(st) = "wait" ->
                       /\ polls' = IF polls < MaxPolls THEN polls + 1 ELSE polls
                       /\ anPc' = "sleep"
                       /\ UNCHANGED <<promptParts, anResponse>>
                  [] FileVerdict(st) = "failed" ->
                       /\ anResponse' = Json(500, ErrorBody("Video processing failed"))
                       /\ anPc' = "done"
                       /\ UNCHANGED <<polls, promptParts>>
                  [] FileVerdict(st) = "ready" ->
                       /\ promptParts' = [fileUri |-> anReq.fileUri,
                                          mimeType |-> JStr("video/mp4")]
                       /\ anPc' = "model"
                       /\ UNCHANGED <<polls, anResponse>>
    /\ UNCHANGED <<anReq, anEnv, backend, anModel>>
    /\ UNCHANGED <<acVars, refineVars, clVars, mdVars, svcVars>>

\* the 2 s timer of the loop fires
AnalyzeWake ==
    /\ anPc = "sleep"
    /\ anPc' = "poll"
    /\ UNCHANGED <<anReq, anEnv, fileState, polls, promptParts, backend, anModel,
                   anResponse>>
    /\ UNCHANGED <<acVars, refineVars, clVars, mdVars, svcVars>>

\* generateContent settles, the answer is cleaned and parsed, the handler answers
AnalyzeGenerate ==
    /\ anPc = "model"
    /\ backend' = IF Route(anReq, anEnv) = "vertex" /\ anEnv.genai THEN "genai"
                  ELSE "legacy"
    /\ \E m \in GeneratorOutcomes :
          /\ anModel' = m
          /\ anResponse' = AnalyzeFinish(m)
    /\ anPc' = "done"
    /\ UNCHANGED <<anReq, anEnv, fileState, polls, promptParts>>
    /\ UNCHANGED <<acVars, refineVars, clVars, mdVars, svcVars>>

AnalyzeNext ==
    AnalyzeReject \/ AnalyzePrompt \/ AnalyzeGetFile \/ AnalyzeWake \/ AnalyzeGenerate

SpecAnalyze == AnalyzeInit /\ [][AnalyzeNext]_vars

-----------------------------------------------------------------------------
(* Claims about the chapter generator (SpecAnalyze) *)

GeneratorUnparsable ==
    /\ anPc = "done"
    /\ anModel.kind = "text"
    /\ ~JSONparse(CleanText(anModel.text)).ok

\* C8: when the model's answer to the chapter prompt is not valid JSON once the
\* code fences are stripped, the analyze request succeeds (status 200) with an
\* empty chapter list; it neither answers an error nor raises an exception.
C8_NonJsonGivesEmptyList ==
    GeneratorUnparsable =>
        /\ anResponse.status = 200
        /\ Lookup(anResponse.body.o, "chapters") = JArr(<<>>)

\* a prose answer, after the file was still processing once, gives 200 and []
C8_Witness ==
    /\ GeneratorUnparsable
    /\ anModel.text = <<P("I cannot watch videos.")>>
    /\ polls > 0
    /\ anResponse = Json(200, ChaptersBody(JArr(<<>>)))

-----------------------------------------------------------------------------
(* The servers as processVideo sees them: every response a request can get *)

\* POST /api/upload: the file reached the Gemini File API, or the handler's catch
UploadResponses ==
    { Json(200, JObj(<<Member("fileUri", JStr(FileApiUri)),
                       Member("name", JStr("files/abc123")),
                       Member("mimeType", JStr("video/mp4"))>>)),
      Json(500, ErrorBody("Upload failed")) }

\* POST /api/youtube: the transcript, or one of the handler's errors
YoutubeResponses ==
    { Json(200, JObj(<<Member("title", JStr("demo")), Member("transcript", Transcript)>>)),
      Json(200, JObj(<<Member("title", JStr("demo")), Member("transcript", JArr(<<>>))>>)),
      Json(500, ErrorBody("Failed to retrieve transcript data")) }

\* the fields of a request body as the handler destructures them
Field(body, k) == Lookup(body.o, k)

\* POST /api/analyze for this body, whatever the configuration and the file state
AnalyzeResponses(body) ==
    LET req == [fileUri |-> Field(body, "fileUri"), mimeType |-> Field(body, "mimeType"),
                transcript |-> Field(body, "transcript"),
                isGcsUri |-> Truthy(Field(body, "isGcsUri"))]
        generated == {AnalyzeFinish(m) : m \in GeneratorOutcomes}
        of(env) ==
            CASE Route(req, env) = "invalid" ->
                    {Json(400, ErrorBody("No file URI or transcript provided"))}
              [] Route(req, env) = "misconfigured" ->
                    {Json(500, ErrorBody("Server configuration error"))}
              [] Route(req, env) = "transcript" ->
                    IF TranscriptText(req.transcript).ok THEN generated
                    ELSE {AnalysisFailed}
              [] Route(req, env) = "vertex" -> generated
              [] Route(req, env) = "fileApi" ->
                    generated \cup {AnalysisFailed,
                                    Json(500, ErrorBody("Video processing failed"))}
    IN  UNION {of(env) : env \in Environments}

\* POST /api/refine for this body, whatever the suggestions and the model's answer
RefineResponses(body) ==
    LET list == Field(body, "chapters") IN
    IF ~ValidChapters(list) THEN {Json(400, ErrorBody("Invalid chapters data"))}
    ELSE {RefineFinish(list, m) : m \in ModelOutcomes(list)}

\* the characters of a text, as description: responseText keeps them
RECURSIVE Raw(_)
Raw(text) ==
    IF text = <<>> THEN ""
    ELSE LET tk == Head(text) IN
         (CASE tk.k = "p" -> tk.p
            [] tk.k = "s" -> "\"" \o tk.s \o "\""
            [] tk.k = "n" -> ToString(tk.n)) \o Raw(Tail(text))

ContextCap == 100000

\* videoContext.substring(0, 100000), as it is interpolated into the prompt
PromptContext(context) ==
    LET str == Raw(context) IN
    SubSeq(str, 1, IF Len(str) < ContextCap THEN Len(str) ELSE ContextCap)

FixedPrefix ==
    "Join My Community to Level Up: https://www.skool.com/vibecodepioneers\n\n"
    \o "Book a Meeting with Our Team: https://tally.so/r/3NBGBl\n\n"
    \o "Subscribe to my newsletter: https://bajulaiye.beehiiv.com/"

\* what the model may answer to the metadata prompt: the JSON asked for (with
\* or without the prefix in the description), other JSON, prose, nothing
MetadataOutcomes ==
    LET Metadata(description) ==
            JObj(<<Member("videoTitles", JArr(<<JStr("demo")>>)),
                   Member("thumbnailTitles", JArr(<<JStr("demo")>>)),
                   Member("description", JStr(description)),
                   Member("tags", JStr("demo"))>>)
        good == Stringify(Metadata(FixedPrefix \o "\n\ndemo day"))
    IN  {ModelThrows} \cup
        {ModelSays(text) : text \in
            { good,
              Fenced(good),
              Stringify(Metadata("demo day")),
              Stringify(JNull),
              SubSeq(good, 1, Len(good) - 1),
              <<P("Here is your metadata: demo")>>,
              <<>> }}

MetadataBody(v) == JObj(<<Member("metadata", v)>>)

\* the handler from the model call on; direct is the File API branch
MetadataFinish(direct, m) ==
    IF m.kind = "error" THEN Json(500, ErrorBody("Metadata generation failed"))
    ELSE LET parsed == JSONparse(CleanText(m.text)) IN
         IF parsed.ok THEN Json(200, MetadataBody(parsed.v))
         ELSE IF direct THEN Json(200, MetadataBody(JObj(<<>>)))
         ELSE Json(200, MetadataBody(
                 JObj(<<Member("videoTitles", JArr(<<>>)),
                        Member("thumbnailTitles", JArr(<<>>)),
                        Member("description", JStr(Raw(m.text))),
                        Member("tags", JStr(""))>>)))

\* POST /api/metadata for this body
MetadataResponses(body) ==
    IF ~Truthy(Field(body, "fileUri")) /\ ~Truthy(Field(body, "transcript"))
    THEN {Json(400, ErrorBody("No file URI or transcript provided"))}
    ELSE {MetadataFinish(~Truthy(Field(body, "transcript")), m) : m \in MetadataOutcomes}
         \cup {Json(500, ErrorBody("Metadata generation failed")),
               Json(500, ErrorBody("Video processing failed"))}

-----------------------------------------------------------------------------
(* processVideo (src/app/page.tsx), one action per await *)

\* res.ok
ResOk(res) == res.status \in 200..299

\* fetch(endpoint, { body: JSON.stringify(data) }) is issued
Send(ep, data) == Append(log, [ep |-> ep, req |-> OnWire(data), res |-> NoResponse])
\* the pending fetch resolves with res
Receive(res) == [log EXCEPT ![Len(log)].res = res]

NoLocals == [fileUri |-> Undefined, mimeType |-> Undefined, transcript |-> Undefined,
             rawChapters |-> Undefined, refinedChapters |-> Undefined]

\* a request body that leaves the transcript out
MediaMembersNoTranscript(l) ==
    <<Member("fileUri", l.fileUri), Member("mimeType", l.mimeType)>>

\* { fileUri, mimeType, transcript }
MediaMembers(l) ==
    <<Member("fileUri", l.fileUri), Member("mimeType", l.mimeType),
      Member("transcript", l.transcript)>>

\* refinedChapters.map(c => c.title), a TypeError when there is no map to call
ChapterTitles(list) ==
    IF ~IsArray(list) THEN Throws
    ELSE Ok(JArr([i \in 1..Len(list.a) |-> Lookup(list.a[i].o, "title")]))

\* the status set once the analysis has been read
StatusAfterSkipping == "metadata"
StatusAfterAnalyze == "optimizing"

\* a catch that forgets the status
CaughtKeepsStatus ==
    /\ status' = status
    /\ clPc' = "idle"

\* catch (error) { ...; setStatus("idle") }
Caught ==
    /\ status' = "idle"
    /\ clPc' = "idle"

ClientInit ==
    /\ isProduction \in BOOLEAN
    /\ activeTab = "upload"
    /\ file = NoFile
    /\ youtubeUrl = ""
    /\ status = "idle"
    /\ uiChapters = JArr(<<>>)
    /\ metadata = JNull
    /\ clPc = "idle"
    /\ locals = Undefined
    /\ log = <<>>
    /\ stages = <<>>
    /\ AcIdle
    /\ RefineIdle
    /\ AnIdle
    /\ MdIdle
    /\ ServicesInit({[state |-> "missing", entries |-> <<>>]})

\* the input area is rendered only while status is idle
SetActiveTab ==
    /\ status = "idle"
    /\ activeTab' \in {"upload", "youtube"} \ {activeTab}
    /\ UNCHANGED <<isProduction, file, youtubeUrl, status, uiChapters, metadata, clPc,
                   locals, log, stages>>
    /\ UNCHANGED <<acVars, refineVars, anVars, mdVars, svcVars>>

OnDrop ==
    /\ status = "idle"
    /\ activeTab = "upload"
    /\ file' \in {[size |-> "small"], [size |-> "large"]} \ {file}
    /\ UNCHANGED <<isProduction, activeTab, youtubeUrl, status, uiChapters, metadata,
                   clPc, locals, log, stages>>
    /\ UNCHANGED <<acVars, refineVars, anVars, mdVars, svcVars>>

SetYoutubeUrl ==
    /\ status = "idle"
    /\ activeTab = "youtube"
    /\ youtubeUrl' \in {"", "https://youtu.be/abc123"} \ {youtubeUrl}
    /\ UNCHANGED <<isProduction, activeTab, file, status, uiChapters, metadata, clPc,
                   locals, log, stages>>
    /\ UNCHANGED <<acVars, refineVars, anVars, mdVars, svcVars>>

\* Generate Content is clicked: processVideo runs up to its first await
ProcessVideo ==
    /\ status = "idle"
    /\ file # NoFile \/ (activeTab = "youtube" /\ youtubeUrl # "")
    /\ ~(file = NoFile /\ activeTab = "upload")
    /\ ~(youtubeUrl = "" /\ activeTab = "youtube")
    /\ status' = "uploading"
    /\ stages' = <<"uploading">>
    /\ locals' = NoLocals
    /\ IF activeTab = "upload"
       THEN IF isProduction /\ file.size = "large"
            THEN /\ clPc' = "firebase"
                 /\ log' = <<>>
            ELSE /\ clPc' = "upload"
                 /\ log' = <<[ep |-> "upload", req |-> JObj(<<Member("file", JStr("demo"))>>),
                              res |-> NoResponse]>>
       ELSE /\ clPc' = "youtube"
            /\ log' = <<[ep |-> "youtube",
                         req |-> JObj(<<Member("url", JStr(youtubeUrl))>>),
                         res |-> NoResponse]>>
    /\ UNCHANGED <<isProduction, activeTab, file, youtubeUrl, uiChapters, metadata>>
    /\ UNCHANGED <<acVars, refineVars, anVars, mdVars, svcVars>>

\* uploadToFirebaseStorage settles
FirebaseUploaded ==
    /\ clPc = "firebase"
    /\ \/ /\ Caught
          /\ UNCHANGED log
       \/ /\ clPc' = "upload"
          /\ log' = Send("upload", JObj(<<Member("firebaseUrl", JStr("demo")),
                                          Member("fileName", JStr("demo")),
                                          Member("mimeType", JStr("video/mp4"))>>))
          /\ UNCHANGED status
    /\ UNCHANGED <<isProduction, activeTab, file, youtubeUrl, uiChapters, metadata,
                   locals, stages>>
    /\ UNCHANGED <<acVars, refineVars, anVars, mdVars, svcVars>>

\* /api/upload or /api/youtube answers; on success the analysis is requested
SourceResponds ==
    /\ clPc \in {"upload", "youtube"}
    /\ \E res \in IF clPc = "upload" THEN UploadResponses ELSE YoutubeResponses :
          IF ~ResOk(res)
          THEN /\ Caught
               /\ log' = Receive(res)
               /\ UNCHANGED <<locals, stages>>
          ELSE LET l == IF clPc = "upload"
                        THEN [locals EXCEPT !.fileUri = Field(res.body, "fileUri"),
                                            !.mimeType = Field(res.body, "mimeType")]
                        ELSE [locals EXCEPT !.transcript = Field(res.body, "transcript")]
               IN  /\ locals' = l
                   /\ status' = "analyzing"
                   /\ stages' = Append(stages, "analyzing")
                   /\ log' = Append(Receive(res),
                                    [ep |-> "analyze", req |-> OnWire(JObj(MediaMembers(l))),
                                     res |-> NoResponse])
                   /\ clPc' = "analyze"
    /\ UNCHANGED <<isProduction, activeTab, file, youtubeUrl, uiChapters, metadata>>
    /\ UNCHANGED <<acVars, refineVars, anVars, mdVars, svcVars>>

\* /api/analyze answers; on success the chapters are shown and refinement requested
AnalyzeResponds ==
    /\ clPc = "analyze"
    /\ \E res \in AnalyzeResponses(log[Len(log)].req) :
          IF ~ResOk(res)
          THEN /\ Caught
               /\ log' = Receive(res)
               /\ UNCHANGED <<locals, stages, uiChapters>>
          ELSE LET rawChapters == Field(res.body, "chapters") IN
               /\ locals' = [locals EXCEPT !.rawChapters = rawChapters]
               /\ uiChapters' = rawChapters
               /\ status' = StatusAfterAnalyze
               /\ stages' = Append(stages, StatusAfterAnalyze)
               /\ log' = Append(Receive(res),
                                [ep |-> "refine",
                                 req |-> OnWire(ChaptersBody(rawChapters)),
                                 res |-> NoResponse])
               /\ clPc' = "refine"
    /\ UNCHANGED <<isProduction, activeTab, file, youtubeUrl, metadata>>
    /\ UNCHANGED <<acVars, refineVars, anVars, mdVars, svcVars>>

\* /api/refine answers; on success the metadata is requested
RefineResponds ==
    /\ clPc = "refine"
    /\ \E res \in RefineResponses(log[Len(log)].req) :
          IF ~ResOk(res)
          THEN /\ Caught
               /\ log' = Receive(res)
               /\ UNCHANGED <<locals, stages, uiChapters>>
          ELSE LET refinedChapters == Field(res.body, "chapters")
                   chapterTitles == ChapterTitles(refinedChapters)
               IN  /\ locals' = [locals EXCEPT !.refinedChapters = refinedChapters]
                   /\ uiChapters' = refinedChapters
                   /\ stages' = Append(stages, "metadata")
                   /\ IF ~chapterTitles.ok
                      THEN /\ Caught
                           /\ log' = Receive(res)
                      ELSE /\ status' = "metadata"
                           /\ log' = Append(Receive(res),
                                  [ep |-> "metadata",
                                   req |-> OnWire(JObj(MediaMembers(locals) \o
                                          <<Member("chapterTitles", chapterTitles.v)>>)),
                                   res |-> NoResponse])
                           /\ clPc' = "metadata"
    /\ UNCHANGED <<isProduction, activeTab, file, youtubeUrl, metadata>>
    /\ UNCHANGED <<acVars, refineVars, anVars, mdVars, svcVars>>

\* /api/metadata answers; on success the run is done
MetadataResponds ==
    /\ clPc = "metadata"
    /\ \E res \in MetadataResponses(log[Len(log)].req) :
          /\ log' = Receive(res)
          /\ IF ~ResOk(res)
             THEN /\ Caught
                  /\ UNCHANGED <<metadata, stages>>
             ELSE /\ metadata' = Field(res.body, "metadata")
                  /\ status' = "done"
                  /\ stages' = Append(stages, "done")
                  /\ clPc' = "idle"
    /\ UNCHANGED <<isProduction, activeTab, file, youtubeUrl, uiChapters, locals>>
    /\ UNCHANGED <<acVars, refineVars, anVars, mdVars, svcVars>>

\* Start Over, a button of the results view (status done and metadata set)
StartOver ==
    /\ status = "done"
    /\ Truthy(metadata)
    /\ file' = NoFile
    /\ status' = "idle"
    /\ uiChapters' = JArr(<<>>)
    /\ metadata' = JNull
    /\ UNCHANGED <<isProduction, activeTab, youtubeUrl, clPc, locals, log, stages>>
    /\ UNCHANGED <<acVars, refineVars, anVars, mdVars, svcVars>>

ClientNext ==
    \/ SetActiveTab
    \/ OnDrop
    \/ SetYoutubeUrl
    \/ ProcessVideo
    \/ FirebaseUploaded
    \/ SourceResponds
    \/ AnalyzeResponds
    \/ RefineResponds
    \/ MetadataResponds
    \/ StartOver

SpecClient == ClientInit /\ [][ClientNext]_vars

-----------------------------------------------------------------------------
(* Claims about the client pipeline (SpecClient) *)

StageOrder == <<"uploading", "analyzing", "optimizing", "metadata", "done">>

\* the endpoint whose request belongs to the i-th stage
EndpointsOf(i) ==
    CASE i = 1 -> {"upload", "youtube"}
      [] i = 2 -> {"analyze"}
      [] i = 3 -> {"refine"}
      [] i = 4 -> {"metadata"}

Answered200(i) == Len(log) >= i /\ ResOk(log[i].res)

\* the analysis of this run answered 200 with an empty chapter list
EmptyAnalysis ==
    /\ Answered200(2)
    /\ Field(log[2].res.body, "chapters") = JArr(<<>>)

\* C9: an empty chapter list from the chapter generator does not abort the run:
\* the refine request is sent with the empty list, whenever the refine stage
\* answers successfully the metadata request is sent, and whenever the metadata
\* stage answers successfully the run reaches done.
C9_EmptyListDoesNotAbort ==
    EmptyAnalysis =>
        /\ Len(log) >= 3
        /\ log[3].ep = "refine"
        /\ Field(log[3].req, "chapters") = JArr(<<>>)
        /\ Answered200(3) => Len(log) >= 4 /\ log[4].ep = "metadata"
        /\ Answered200(4) => stages[Len(stages)] = "done"

\* C10: in every run the statuses are set in the order uploading, analyzing,
\* optimizing, metadata, done, none skipped and none repeated, the request of a
\* stage is sent only once every earlier request has been answered successfully,
\* and status only ever moves to the next stage or back to idle.
C10_StagesInOrder ==
    /\ [](/\ Len(stages) <= Len(StageOrder)
          /\ \A i \in 1..Len(stages) : stages[i] = StageOrder[i]
          /\ status # "idle" => stages # <<>> /\ status = stages[Len(stages)]
          /\ Len(log) <= Len(stages)
          /\ \A i \in 1..Len(log) : log[i].ep \in EndpointsOf(i)
          /\ \A i \in 1..(Len(log) - 1) : ResOk(log[i].res)
          /\ \A i \in 2..Len(stages) : Answered200(i - 1)
          /\ clPc \notin {"idle", "firebase"} =>
                /\ Len(log) = Len(stages)
                /\ log[Len(log)].res = NoResponse)
    /\ [][status' # status =>
            \/ status' = "idle"
            \/ status = "idle" /\ status' = "uploading"
            \/ \E i \in 1..(Len(StageOrder) - 1) :
                  status = StageOrder[i] /\ status' = StageOrder[i + 1]]_vars

\* a run that went through all five stages, four requests each answered
C10_Witness ==
    /\ status = "done"
    /\ stages = StageOrder
    /\ Len(log) = 4
    /\ \A i \in 1..4 : ResOk(log[i].res)

\* a stage of this run failed: a response that is not OK, a TypeError on the
\* refined chapters, or a rejected Firebase upload
RunFailed ==
    \/ /\ log # <<>>
       /\ log[Len(log)].res # NoResponse
       /\ ~ResOk(log[Len(log)].res)
    \/ /\ Len(log) = 3
       /\ ResOk(log[3].res)
       /\ ~IsArray(Field(log[3].res.body, "chapters"))
    \/ /\ log = <<>>
       /\ stages = <<"uploading">>
       /\ clPc # "firebase"

\* C11: when a stage of a run fails (response not OK, or an error thrown), the
\* run ends in the error state: status is idle, nothing is awaited, the failed
\* request is the last of the run (no later stage is requested), no endpoint is
\* requested twice in the run, and the run has not reached done.
C11_FailureEndsRun ==
    RunFailed =>
        /\ status = "idle"
        /\ clPc = "idle"
        /\ stages[Len(stages)] # "done"
        /\ \A i, j \in 1..Len(log) : i # j => log[i].ep # log[j].ep
        /\ \A i \in 1..(Len(log) - 1) : ResOk(log[i].res)

\* the analysis answered 500 and the run is over, back on the input view
C11_Witness ==
    /\ Len(log) = 2
    /\ log[2].ep = "analyze"
    /\ log[2].res.status = 500
    /\ status = "idle"
    /\ stages = <<"uploading", "analyzing">>

-----------------------------------------------------------------------------
(* POST /api/metadata: requests, seeds and the suggestion map *)

SeedLimit == 5

MetadataRequests ==
    [fileUri : {Undefined, JStr(GsUri), JStr(FileApiUri)},
     mimeType : {JStr("video/mp4")},
     transcript : {Undefined, JArr(<<>>), Transcript, LongTranscript, JStr("demo")},
     isGcsUri : BOOLEAN,
     chapterTitles :                \* absent, up to six titles, or a string
        LET T(ss) == JArr([i \in 1..Len(ss) |-> JStr(ss[i])]) IN
        {Undefined, T(<<>>), T(<<"q", "demo">>),
         T(<<"q", "demo", "a", "b", "demo day", "Outro">>),
         T(<<"q", "q", "demo", "a", "b", "Outro">>),
         JStr("demo")}]

\* seeds taken without the slice
SeedsAll(chapterTitles) ==
    IF ~Truthy(chapterTitles) THEN Ok(<<>>)
    ELSE IF ~IsArray(chapterTitles) THEN Throws
    ELSE Ok(chapterTitles.a)

\* chapterTitles ? chapterTitles.slice(0, 5) : [], iterated with forEach:
\* a TypeError when the value has no slice, or the slice no forEach
Seeds(chapterTitles) ==
    IF ~Truthy(chapterTitles) THEN Ok(<<>>)
    ELSE IF ~IsArray(chapterTitles) THEN Throws
    ELSE Ok(SubSeq(chapterTitles.a, 1,
                   IF Len(chapterTitles.a) < SeedLimit THEN Len(chapterTitles.a)
                   ELSE SeedLimit))

\* seeds.forEach(seed => suggestionsMap[seed] = [seed])
RECURSIVE SuggestionsMap(_)
SuggestionsMap(seeds) ==
    IF seeds = <<>> THEN <<>>
    ELSE SetKey(SuggestionsMap(SubSeq(seeds, 1, Len(seeds) - 1)),
                seeds[Len(seeds)].s, JArr(<<seeds[Len(seeds)]>>))

-----------------------------------------------------------------------------
(* POST /api/metadata: the handler, step by step *)

MetadataFailed == Json(500, ErrorBody("Metadata generation failed"))

\* Step 1 asks isVertexAIConfigured() && vertexModel
MdRoute == Route(mdReq, [vertex |-> mdEnv.vertex /\ mdEnv.vertexModel])

\* what the extraction model may answer: a summary, nothing, or an error
ExtractOutcomes == {ModelThrows, ModelSays(<<P("A demo of q.")>>), ModelSays(<<>>)}

MetadataInit ==
    /\ mdReq \in MetadataRequests
    /\ mdEnv \in Environments
    /\ mdPc = "start"
    /\ mdFile = ""
    /\ mdPolls = 0
    /\ suggestionsMap = Undefined
    /\ videoContext = Undefined
    /\ mdCalls = {}
    /\ mdModel = NoCall
    /\ mdResponse = NoResponse
    /\ trReq = Undefined
    /\ trEnv = Undefined
    /\ trPc = "off"
    /\ trCalls = {}
    /\ trTranscript = Undefined
    /\ trResponse = NoResponse
    /\ AcIdle
    /\ RefineIdle
    /\ AnIdle
    /\ ClIdle
    /\ ServicesInit({[state |-> "missing", entries |-> <<>>]})

\* the handler up to its first await, or to its response if it has none
MdStart ==
    /\ mdPc = "start"
    /\ IF MdRoute = "invalid"
       THEN /\ mdResponse' = Json(400, ErrorBody("No file URI or transcript provided"))
            /\ mdPc' = "done"
            /\ UNCHANGED <<suggestionsMap, videoContext, mdCalls>>
       ELSE IF ~Seeds(mdReq.chapterTitles).ok
       THEN /\ mdResponse' = MetadataFailed
            /\ mdPc' = "done"
            /\ UNCHANGED <<suggestionsMap, videoContext, mdCalls>>
       ELSE /\ suggestionsMap' = JObj(SuggestionsMap(Seeds(mdReq.chapterTitles).v))
            /\ CASE MdRoute = "transcript" ->
                      IF ~TranscriptText(mdReq.transcript).ok
                      THEN /\ mdResponse' = MetadataFailed
                           /\ mdPc' = "done"
                           /\ UNCHANGED <<videoContext, mdCalls>>
                      ELSE /\ videoContext' = TranscriptText(mdReq.transcript).v
                           /\ IF mdEnv.genai
                              THEN /\ mdCalls' = {"synth"}
                                   /\ mdPc' = "synth"
                                   /\ UNCHANGED mdResponse
                              ELSE /\ mdResponse' = MetadataFailed
                                   /\ mdPc' = "done"
                                   /\ UNCHANGED mdCalls
                 [] MdRoute = "vertex" ->
                      /\ mdCalls' = {"extract"}
                      /\ mdPc' = "extract"
                      /\ UNCHANGED <<videoContext, mdResponse>>
                 [] MdRoute = "misconfigured" ->
                      /\ mdResponse' = Json(500, ErrorBody("Server configuration error"))
                      /\ mdPc' = "done"
                      /\ UNCHANGED <<videoContext, mdCalls>>
                 [] MdRoute = "fileApi" ->
                      /\ mdCalls' = {"getFile"}
                      /\ mdPc' = "poll"
                      /\ UNCHANGED <<videoContext, mdResponse>>
    /\ UNCHANGED <<mdReq, mdEnv, mdFile, mdPolls, mdModel>>
    /\ UNCHANGED <<trReq, trEnv, trPc, trCalls, trTranscript, trResponse>>
    /\ UNCHANGED <<acVars, refineVars, anVars, clVars, svcVars>>

\* vertexModel.generateContent settles: the summary is the video context
MdExtracted ==
    /\ mdPc = "extract"
    /\ \E m \in ExtractOutcomes :
          /\ mdModel' = m
          /\ IF m.kind = "error"
             THEN /\ mdResponse' = MetadataFailed
                  /\ mdPc' = "done"
                  /\ UNCHANGED <<videoContext, mdCalls>>
             ELSE /\ videoContext' = m.text
                  /\ IF mdEnv.genai
                     THEN /\ mdCalls' = mdCalls \cup {"synth"}
                          /\ mdPc' = "synth"
                          /\ UNCHANGED mdResponse
                     ELSE /\ mdResponse' = MetadataFailed
                          /\ mdPc' = "done"
                          /\ UNCHANGED mdCalls
    /\ UNCHANGED <<mdReq, mdEnv, mdFile, mdPolls, suggestionsMap>>
    /\ UNCHANGED <<trReq, trEnv, trPc, trCalls, trTranscript, trResponse>>
    /\ UNCHANGED <<acVars, refineVars, anVars, clVars, svcVars>>

\* fileManager.getFile settles: the first call, or a call of the loop
MdGetFile ==
    /\ mdPc = "poll"
    /\ \/ /\ mdResponse' = MetadataFailed             \* getFile rejects
          /\ mdPc' = "done"
          /\ UNCHANGED <<mdFile, mdPolls, mdCalls>>
       \/ \E st \in FileStates :
             /\ mdFile' = st
             /\ CASE FileVerdict(st) = "wait" ->
                       /\ mdPolls' = IF mdPolls < MaxPolls THEN mdPolls + 1 ELSE mdPolls
                       /\ mdPc' = "sleep"
                       /\ UNCHANGED <<mdCalls, mdResponse>>
                  [] FileVerdict(st) = "failed" ->
                       /\ mdResponse' = Json(500, ErrorBody("Video processing failed"))
                       /\ mdPc' = "done"
                       /\ UNCHANGED <<mdPolls, mdCalls>>
                  [] FileVerdict(st) = "ready" ->
                       /\ UNCHANGED mdPolls
                       /\ IF mdEnv.genai
                          THEN /\ mdCalls' = mdCalls \cup {"direct"}
                               /\ mdPc' = "direct"
                               /\ UNCHANGED mdResponse
                          ELSE /\ mdResponse' = MetadataFailed
                               /\ mdPc' = "done"
                               /\ UNCHANGED mdCalls
    /\ UNCHANGED <<mdReq, mdEnv, suggestionsMap, videoContext, mdModel>>
    /\ UNCHANGED <<trReq, trEnv, trPc, trCalls, trTranscript, trResponse>>
    /\ UNCHANGED <<acVars, refineVars, anVars, clVars, svcVars>>

\* the 2 s timer of the loop fires and getFile is called again
MdWake ==
    /\ mdPc = "sleep"
    /\ mdPc' = "poll"
    /\ UNCHANGED <<mdReq, mdEnv, mdFile, mdPolls, suggestionsMap, videoContext,
                   mdCalls, mdModel, mdResponse>>
    /\ UNCHANGED <<trReq, trEnv, trPc, trCalls, trTranscript, trResponse>>
    /\ UNCHANGED <<acVars, refineVars, anVars, clVars, svcVars>>

\* genaiClient.models.generateContent settles and the handler answers
MdAnswer ==
    /\ mdPc \in {"direct", "synth"}
    /\ \E m \in MetadataOutcomes :
          /\ mdModel' = m
          /\ mdResponse' = MetadataFinish(mdPc = "direct", m)
    /\ mdPc' = "done"
    /\ UNCHANGED <<mdReq, mdEnv, mdFile, mdPolls, suggestionsMap, videoContext, mdCalls>>
    /\ UNCHANGED <<trReq, trEnv, trPc, trCalls, trTranscript, trResponse>>
    /\ UNCHANGED <<acVars, refineVars, anVars, clVars, svcVars>>

-----------------------------------------------------------------------------
(* POST /api/transcribe *)

TranscriptionFailed == [status |-> 500, body |-> ErrorBody("Transcription failed")]

TranscribeInit ==
    /\ trReq \in [fileUri : {Undefined, JStr(GsUri), JStr(FileApiUri)},
                  mimeType : {Undefined, JStr("video/mp4")},
                  isGcsUri : BOOLEAN]
    /\ trEnv \in Environments
    /\ trPc = "start"
    /\ trCalls = {}
    /\ trTranscript = Undefined
    /\ trResponse = NoResponse
    /\ mdReq = Undefined
    /\ mdEnv = Undefined
    /\ mdPc = "off"
    /\ mdFile = ""
    /\ mdPolls = 0
    /\ suggestionsMap = Undefined
    /\ videoContext = Undefined
    /\ mdCalls = {}
    /\ mdModel = NoCall
    /\ mdResponse = NoResponse
    /\ AcIdle
    /\ RefineIdle
    /\ AnIdle
    /\ ClIdle
    /\ ServicesInit({[state |-> "missing", entries |-> <<>>]})

\* no fileUri: 400; a gs:// file (or isGcsUri) with Vertex AI: the transcript
\* is requested; anything else: 500
TranscribeStart ==
    /\ trPc = "start"
    /\ IF ~Truthy(trReq.fileUri)
       THEN /\ trResponse' = [status |-> 400, body |-> ErrorBody("No file URI provided")]
            /\ trPc' = "done"
            /\ UNCHANGED trCalls
       ELSE IF Route(trReq @@ [transcript |-> Undefined],
                     [vertex |-> trEnv.vertex /\ trEnv.vertexModel]) = "vertex"
       THEN /\ trCalls' = {"transcript"}
            /\ trPc' = "transcript"
            /\ UNCHANGED trResponse
       ELSE /\ trResponse' =
                  [status |-> 500,
                   body |-> ErrorBody("Server configuration error: Vertex AI not configured for GCS files.")]
            /\ trPc' = "done"
            /\ UNCHANGED trCalls
    /\ UNCHANGED <<trReq, trEnv, trTranscript>>
    /\ UNCHANGED <<mdReq, mdEnv, mdPc, mdFile, mdPolls, suggestionsMap, videoContext,
                   mdCalls, mdModel, mdResponse>>
    /\ UNCHANGED <<acVars, refineVars, anVars, clVars, svcVars>>

\* a vertexModel.generateContent call settles: first the transcript, then the
\* SRT, which is stripped of fences and trimmed before the handler answers
TranscribeGenerated ==
    /\ trPc \in {"transcript", "srt"}
    /\ \E m \in {ModelThrows, ModelSays(<<>>),
                 ModelSays(<<P("Hello and welcome."), NL>>),
                 ModelSays(<<P("<fence>srt"), NL, P("1"), NL, P("Hello"), NL, FENCE>>)} :
          IF m.kind = "error"
          THEN /\ trResponse' = TranscriptionFailed
               /\ trPc' = "done"
               /\ UNCHANGED <<trCalls, trTranscript>>
          ELSE IF trPc = "transcript"
          THEN /\ trTranscript' = m.text
               /\ trCalls' = trCalls \cup {"srt"}
               /\ trPc' = "srt"
               /\ UNCHANGED trResponse
          ELSE /\ trResponse' =
                     [status |-> 200,
                      body |-> JObj(<<Member("success", [t |-> "bool", b |-> TRUE]),
                                      Member("transcript",
                                             JStr(Raw(Trim(trTranscript)))),
                                      Member("srt",
                                             JStr(Raw(Trim(SelectSeq(m.text,
                                                 LAMBDA tk : tk \notin {P("<fence>srt"), FENCE})))))>>)]
               /\ trPc' = "done"
               /\ UNCHANGED <<trCalls, trTranscript>>
    /\ UNCHANGED <<trReq, trEnv>>
    /\ UNCHANGED <<mdReq, mdEnv, mdPc, mdFile, mdPolls, suggestionsMap, videoContext,
                   mdCalls, mdModel, mdResponse>>
    /\ UNCHANGED <<acVars, refineVars, anVars, clVars, svcVars>>

-----------------------------------------------------------------------------
(* The three video stages, one request each *)

StagesNext ==
    \/ AnalyzeNext
    \/ MdStart \/ MdExtracted \/ MdGetFile \/ MdWake \/ MdAnswer
    \/ TranscribeStart \/ TranscribeGenerated

SpecStages == (AnalyzeInit \/ MetadataInit \/ TranscribeInit) /\ [][StagesNext]_vars

\* the four endpoints that take a JSON body, one request to one of them
SpecEndpoints ==
    /\ RefineInit \/ AnalyzeInit \/ MetadataInit \/ TranscribeInit
    /\ [][RefineNext \/ StagesNext]_vars

\* The requests that take the File API branch. A handler that can take a step
\* eventually takes one: promises settle and timers fire.
PollingNext ==
    \/ AnalyzeGetFile \/ AnalyzeWake \/ AnalyzeGenerate
    \/ MdStart \/ MdGetFile \/ MdWake \/ MdAnswer

SpecPolling ==
    /\ \/ AnalyzeInit /\ Route(anReq, anEnv) = "fileApi"
       \/ MetadataInit /\ MdRoute = "fileApi"
    /\ [][PollingNext]_vars
    /\ WF_vars(PollingNext)

-----------------------------------------------------------------------------
(* Claims about the video stages *)

ProcessingFailed(res) == res = Json(500, ErrorBody("Video processing failed"))

\* the generative model has been invoked by the analyze / metadata handler
AnModelInvoked == anPc = "model" \/ anModel # NoCall
MdModelInvoked == mdCalls \cap {"extract", "direct", "synth"} # {}

C13_PollingTerminates ==
    <>(anPc \in {"off", "done"} /\ mdPc \in {"off", "done"})

\* the request names its video by a URI with, or without, the gs:// scheme
GsScheme(req) ==
    /\ ~Truthy(req.transcript)
    /\ Truthy(req.fileUri)
    /\ Len(req.fileUri.s) >= 5
    /\ SubSeq(req.fileUri.s, 1, 5) = "gs://"
OtherScheme(req) == ~Truthy(req.transcript) /\ Truthy(req.fileUri) /\ ~GsScheme(req)

\* C14: in the analyze handler the scheme prefix of the URI alone decides the
\* backend of the model call: a gs:// URI is sent to the Gen AI (cloud URI)
\* client without any file-state poll, every other URI is polled through the
\* file manager and sent to the legacy File API client.
C14_SchemeDecidesBackend ==
    (anPc # "off" /\ backend # "") =>
        /\ GsScheme(anReq) => backend = "genai" /\ fileState = ""
        /\ OtherScheme(anReq) => backend = "legacy" /\ fileState # ""

ConfigurationError(res) ==
    /\ res # NoResponse
    /\ res.status = 500
    /\ SubSeq(Field(res.body, "error").s, 1, 26) = "Server configuration error"

Rendered(segments) ==
    [k \in 1..(IF segments = <<>> THEN 0 ELSE 5 * Len(segments) - 1) |->
        LET t == segments[((k - 1) \div 5) + 1].o IN
        CASE (k - 1) % 5 = 0 -> P("[")
          [] (k - 1) % 5 = 1 -> N(Lookup(t, "start").n)
          [] (k - 1) % 5 = 2 -> P("s] ")
          [] (k - 1) % 5 = 3 -> P(Lookup(t, "text").s)
          [] (k - 1) % 5 = 4 -> P("\n")]

\* C16: when the request carries a transcript (a list of segments), the text
\* the analyze handler puts into its prompt and the video context of the
\* metadata handler are exactly the lines "[<start>s] <text>" of the segments
\* in their order, and the handler makes no getFile call and no
\* context-extraction model call.
C16_TranscriptIsTheContext ==
    /\ (anPc \notin {"off", "start"} /\ IsArray(anReq.transcript)) =>
          /\ promptParts = [text |-> Rendered(anReq.transcript.a)]
          /\ fileState = "" /\ polls = 0
    /\ (mdPc \notin {"off", "start"} /\ IsArray(mdReq.transcript)
            /\ Seeds(mdReq.chapterTitles).ok) =>
          /\ videoContext = Rendered(mdReq.transcript.a)
          /\ mdCalls \subseteq {"synth"}
          /\ mdFile = "" /\ mdPolls = 0

\* metadata synthesised from a two-segment transcript
C16_Witness ==
    /\ mdPc = "done"
    /\ mdReq.transcript = Transcript
    /\ mdCalls = {"synth"}
    /\ Raw(videoContext) = "[0s] demo\n[5s] demo day"
    /\ mdResponse.status = 200

-----------------------------------------------------------------------------
(* Claims about the video reference of a run *)

\* the reference members of a request or response body
ReferenceOf(body) ==
    [k \in {"fileUri", "mimeType", "transcript"} |-> Field(body, k)]

\* C17: in every run the analyze request names the video by exactly one of
\* fileUri and transcript, with the value the upload or youtube response gave,
\* and the metadata request of the run carries the same fileUri, mimeType and
\* transcript as the analyze request.
C17_OneReferencePerRun ==
    \A i \in 1..Len(log) :
        /\ log[i].ep = "analyze" =>
              /\ (Field(log[i].req, "fileUri") = Undefined)
                    # (Field(log[i].req, "transcript") = Undefined)
              /\ ReferenceOf(log[i].req) = ReferenceOf(log[i - 1].res.body)
        /\ log[i].ep = "metadata" =>
              \E j \in 1..(i - 1) :
                  /\ log[j].ep = "analyze"
                  /\ ReferenceOf(log[i].req) = ReferenceOf(log[j].req)

\* a YouTube run that has sent its metadata request with the transcript
C17_Witness ==
    /\ Len(log) = 4
    /\ log[4].ep = "metadata"
    /\ Field(log[4].req, "transcript") = Transcript
    /\ Field(log[4].req, "fileUri") = Undefined

-----------------------------------------------------------------------------
(* Claims about the metadata handler *)

\* the metadata handler has answered from a model response that is text
MdAnswered ==
    /\ mdPc = "done"
    /\ mdCalls \cap {"direct", "synth"} # {}
    /\ mdModel.kind = "text"
    /\ mdResponse # MetadataFailed

MdUnparsable == ~JSONparse(CleanText(mdModel.text)).ok

\* C18: on every path of the metadata handler a model response that is not
\* valid JSON is answered with status 200 and a metadata record with empty
\* videoTitles and thumbnailTitles, empty tags and the raw model text as the
\* description.
C18_NonJsonGivesDegradedMetadata ==
    (MdAnswered /\ MdUnparsable) =>
        mdResponse =
            Json(200, MetadataBody(
                JObj(<<Member("videoTitles", JArr(<<>>)),
                       Member("thumbnailTitles", JArr(<<>>)),
                       Member("description", JStr(Raw(mdModel.text))),
                       Member("tags", JStr(""))>>)))

\* C19: whatever the model answered, the description of the metadata in a
\* successful response of the metadata handler is a string that starts with
\* the fixed prefix block.
C19_DescriptionStartsWithPrefix ==
    (MdAnswered /\ mdResponse.status = 200) =>
        LET md == Field(mdResponse.body, "metadata") IN
        /\ md.t = "obj"
        /\ Field(md, "description").t = "str"
        /\ Len(Field(md, "description").s) >= Len(FixedPrefix)
        /\ SubSeq(Field(md, "description").s, 1, Len(FixedPrefix)) = FixedPrefix

\* the keys of the suggestion map, and the first titles of the request
MapKeys == {suggestionsMap.o[i].key : i \in 1..Len(suggestionsMap.o)}
FirstTitles ==
    {mdReq.chapterTitles.a[i].s :
        i \in {n \in 1..Len(mdReq.chapterTitles.a) : n <= SeedLimit}}

\* C20: once the metadata handler has built its suggestion map, the map has at
\* most 5 keys, each of them one of the first 5 chapter titles of the request
\* (and each of those titles is a key, mapped to the list holding just itself);
\* without chapterTitles the map is empty.
C20_SeedsAreFirstFive ==
    (mdPc \notin {"off", "start"} /\ suggestionsMap # Undefined) =>
        /\ Len(suggestionsMap.o) <= SeedLimit
        /\ Cardinality(MapKeys) = Len(suggestionsMap.o)
        /\ IF ~Truthy(mdReq.chapterTitles) THEN suggestionsMap = JObj(<<>>)
           ELSE /\ MapKeys = FirstTitles
                /\ \A k \in MapKeys :
                      Lookup(suggestionsMap.o, k) = JArr(<<JStr(k)>>)

\* six distinct chapter titles were sent and five of them seed the map
C20_Witness ==
    /\ mdPc = "done"
    /\ suggestionsMap # Undefined
    /\ IsArray(mdReq.chapterTitles)
    /\ Cardinality({mdReq.chapterTitles.a[i] : i \in 1..Len(mdReq.chapterTitles.a)}) = 6
    /\ MapKeys = {"q", "demo", "a", "b", "demo day"}

-----------------------------------------------------------------------------
(* Claims about prompt sizes *)

\* C21: the transcript text the analyze handler puts into its prompt, and the
\* video context the metadata handler puts into its synthesis prompt, have at
\* most 100,000 characters and are the leading characters of the full text.
C21_PromptTextIsCapped ==
    /\ (anPc \notin {"off", "start"} /\ promptParts # Undefined
            /\ "text" \in DOMAIN promptParts) =>
          Len(Raw(promptParts.text)) <= ContextCap
    /\ (mdPc \notin {"off", "start"} /\ "synth" \in mdCalls) =>
          /\ Len(PromptContext(videoContext)) <= ContextCap
          /\ PromptContext(videoContext)
                = SubSeq(Raw(videoContext), 1, Len(PromptContext(videoContext)))

-----------------------------------------------------------------------------
(* Claims about the transcription and the chapter times *)

\* C22: when the transcribe handler has the model's transcript text (plain
\* text, not a structured transcript-and-srt object), it answers with status
\* 200, that text as the transcript and the empty string as the srt.
C22_UnstructuredGivesTranscriptOnly ==
    (trPc = "done" /\ trTranscript # Undefined) =>
        /\ trResponse.status = 200
        /\ Field(trResponse.body, "transcript") = JStr(Raw(Trim(trTranscript)))
        /\ Field(trResponse.body, "srt") = JStr("")

\* M:SS or MM:SS with minutes below 60, or H:MM:SS
TimeFormatOk(str) ==
    LET Digit(i) == SubSeq(str, i, i) \in {"0", "1", "2", "3", "4", "5", "6", "7", "8", "9"}
        Below6(i) == SubSeq(str, i, i) \in {"0", "1", "2", "3", "4", "5"}
        Colon(i) == SubSeq(str, i, i) = ":"
    IN  \/ Len(str) = 4 /\ Digit(1) /\ Colon(2) /\ Below6(3) /\ Digit(4)
        \/ Len(str) = 5 /\ Below6(1) /\ Digit(2) /\ Colon(3) /\ Below6(4) /\ Digit(5)
        \/ /\ Len(str) = 7
           /\ Digit(1) /\ Colon(2) /\ Below6(3) /\ Digit(4)
           /\ Colon(5) /\ Below6(6) /\ Digit(7)

\* C23: every chapter in a successful response of the analyze handler has a
\* time of the form M:SS or MM:SS (under an hour, so minutes below 60) or
\* H:MM:SS.
C23_TimesFollowTheFormat ==
    (anPc = "done" /\ anResponse.status = 200) =>
        LET list == Field(anResponse.body, "chapters") IN
        IsArray(list) =>
            \A i \in 1..Len(list.a) :
                /\ list.a[i].t = "obj"
                /\ Field(list.a[i], "time").t = "str"
                /\ TimeFormatOk(Field(list.a[i], "time").s)

-----------------------------------------------------------------------------
(* Claims about the suggestion fetcher across requests *)

-----------------------------------------------------------------------------
(* Claims about the results the client stores *)

\* C26: whenever the client's status is done, the stored metadata is an object
\* with videoTitles and thumbnailTitles lists and with description and tags
\* strings, whatever successful response the metadata endpoint gave.
C26_DoneHasRenderableMetadata ==
    status = "done" =>
        /\ metadata.t = "obj"
        /\ IsArray(Field(metadata, "videoTitles"))
        /\ IsArray(Field(metadata, "thumbnailTitles"))
        /\ Field(metadata, "description").t = "str"
        /\ Field(metadata, "tags").t = "str"

-----------------------------------------------------------------------------
(* Claims about request validation *)

\* the member is not in the body
Absent(v) == v = Undefined

\* C27: a request to analyze or metadata with neither fileUri nor transcript,
\* a request to refine whose chapters is missing or no list, and a request to
\* transcribe without fileUri are answered with status 400 in the handler's
\* first step, with no file-manager, autocomplete or model call made.
C27_MissingInputIs400 ==
    /\ (anPc \notin {"off", "start"} /\ Absent(anReq.fileUri) /\ Absent(anReq.transcript)) =>
          /\ anPc = "done" /\ anResponse.status = 400
          /\ fileState = "" /\ polls = 0 /\ promptParts = Undefined /\ anModel = NoCall
    /\ (mdPc \notin {"off", "start"} /\ Absent(mdReq.fileUri) /\ Absent(mdReq.transcript)) =>
          /\ mdPc = "done" /\ mdResponse.status = 400
          /\ mdCalls = {} /\ mdFile = "" /\ mdModel = NoCall /\ suggestionsMap = Undefined
    /\ (refinePc \notin {"off", "start"} /\ (Absent(chapters) \/ ~IsArray(chapters))) =>
          /\ refinePc = "done" /\ refineResponse.status = 400
          /\ fetchState = <<>> /\ prompt = Undefined /\ modelOutcome = NoCall
    /\ (trPc \notin {"off", "start"} /\ Absent(trReq.fileUri)) =>
          /\ trPc = "done" /\ trResponse.status = 400
          /\ trCalls = {} /\ trTranscript = Undefined

\* a metadata request that has chapter titles but no video reference
C27_Witness ==
    /\ mdPc = "done"
    /\ Absent(mdReq.fileUri) /\ Absent(mdReq.transcript)
    /\ IsArray(mdReq.chapterTitles)
    /\ mdResponse = Json(400, ErrorBody("No file URI or transcript provided"))

\* ---------------------------------------------------------------------------
\* POST /api/upload (src/app/api/upload/route.ts)
\*
\* upPc.at is where the handler is, upPc.n the number of the request (it stands
\* for Date.now() in the name of the temp file) and upPc.path the temp file path
\* computed for the request ("" while there is none).  disk is the set of temp
\* files that exist.  The outcomes of mkdir, fetch, pipeline, writeFile,
\* uploadFile and unlink are chosen by the environment.
\* ---------------------------------------------------------------------------
MaxUploads == 2

\* POST up to its first pending await: the request is read, a missing input is
\* answered with 400, otherwise the download or the write of the temp file starts
UploadStart ==
    /\ upPc.at \in {"idle", "done"}
    /\ upPc.n < MaxUploads
    /\ LET n == upPc.n + 1 IN
       \E contentType \in {"application/json", "multipart/form-data", "text/plain"},
          firebaseUrl \in {"", "https://firebasestorage.example/v"},
          name \in {"", "a.mp4"} :
         /\ tempFilePath' = IF contentType = "multipart/form-data" /\ name # ""
                             THEN "tmp/upload-" \o ToString(n) \o "-" \o name
                             ELSE "null"
         /\ IF contentType = "application/json"
            THEN IF firebaseUrl = ""
                 THEN /\ upPc' = [at |-> "done", n |-> n, path |-> ""]
                      /\ upResponse' = Json(400, ErrorBody("No Firebase URL provided"))
                 ELSE /\ upPc' = [at |-> "downloading", n |-> n,
                                  path |-> "tmp/content-studio-uploads/" \o ToString(n) \o "-"
                                           \o (IF name = "" THEN "video.mp4" ELSE name)]
                      /\ upResponse' = NoResponse
            ELSE IF contentType # "multipart/form-data"
                 THEN \* req.formData() rejects; the catch finds tempFilePath null
                      /\ firebaseUrl = "" /\ name = ""
                      /\ upPc' = [at |-> "done", n |-> n, path |-> ""]
                      /\ upResponse' = Json(500, JObj(<<Member("error", JStr("Upload failed")),
                                                        Member("details", JStr("formData"))>>))
                 ELSE /\ firebaseUrl = ""
                      /\ IF name = ""
                         THEN /\ upPc' = [at |-> "done", n |-> n, path |-> ""]
                              /\ upResponse' = Json(400, ErrorBody("No file uploaded"))
                         ELSE /\ upPc' = [at |-> "writing", n |-> n, path |-> tempFilePath']
                              /\ upResponse' = NoResponse
    /\ UNCHANGED disk
    /\ UNCHANGED <<acVars, refineVars, anVars, clVars, mdVars, coVars, trainVars, postVars>>

\* the temp file of the request settles.
\* Firebase path: downloadToTemp settles; mkdir or fetch fail before the file is
\* opened, a pipeline that rejects leaves the file createWriteStream opened;
\* only the returned path is assigned to POST's tempFilePath, so the catch of a
\* failed download finds it null and unlinks nothing.
\* FormData path: writeFile settles; tempFilePath was assigned before the
\* write, so the catch of a failed write unlinks the path (and ignores a
\* failing unlink).
TempFileSettles ==
    /\ \/ /\ upPc.at = "downloading"
          /\ \E outcome \in {"mkdir", "fetch", "pipeline", "ok"} :
               /\ disk' = IF outcome \in {"pipeline", "ok"} THEN disk \cup {upPc.path} ELSE disk
               /\ IF outcome = "ok"
                  THEN /\ tempFilePath' = upPc.path
                       /\ upPc' = [upPc EXCEPT !.at = "uploading"]
                       /\ UNCHANGED upResponse
                  ELSE /\ UNCHANGED tempFilePath
                       /\ upPc' = [upPc EXCEPT !.at = "done"]
                       /\ upResponse' = Json(500, JObj(<<Member("error", JStr("Upload failed")),
                                                         Member("details", JStr(outcome))>>))
       \/ /\ upPc.at = "writing"
          /\ \E outcome \in {"ok", "partial", "nofile"}, unlinked \in BOOLEAN :
               IF outcome = "ok"
               THEN /\ unlinked
                    /\ disk' = disk \cup {tempFilePath}
                    /\ upPc' = [upPc EXCEPT !.at = "uploading"]
                    /\ UNCHANGED upResponse
               ELSE /\ outcome = "nofile" => ~unlinked
                    /\ disk' = IF outcome = "partial" /\ ~unlinked
                               THEN disk \cup {tempFilePath} ELSE disk
                    /\ upPc' = [upPc EXCEPT !.at = "done"]
                    /\ upResponse' = Json(500, JObj(<<Member("error", JStr("Upload failed")),
                                                      Member("details", JStr("writeFile"))>>))
          /\ UNCHANGED tempFilePath
    /\ UNCHANGED <<acVars, refineVars, anVars, clVars, mdVars, coVars, trainVars, postVars>>

\* fileManager.uploadFile settles: on success the temp file is unlinked and the
\* reference returned; a failing upload or a failing unlink goes to the catch,
\* which unlinks tempFilePath and ignores a failure of that
UploadFileSettles ==
    /\ upPc.at = "uploading"
    /\ \E uploaded \in BOOLEAN, unlinked \in BOOLEAN, unlinkedInCatch \in BOOLEAN :
         /\ ~uploaded => unlinked = unlinkedInCatch
         /\ unlinked => unlinkedInCatch
         /\ IF uploaded /\ unlinked
            THEN /\ disk' = disk \ {tempFilePath}
                 /\ tempFilePath' = "null"
                 /\ upResponse' = [status |-> 200,
                                   body |-> JObj(<<Member("success", [t |-> "bool", b |-> TRUE]),
                                                   Member("fileUri", JStr("https://generativelanguage.example/files/f")),
                                                   Member("name", JStr("files/f")),
                                                   Member("mimeType", JStr("video/mp4"))>>)]
            ELSE /\ disk' = IF unlinkedInCatch THEN disk \ {tempFilePath} ELSE disk
                 /\ UNCHANGED tempFilePath
                 /\ upResponse' = Json(500, JObj(<<Member("error", JStr("Upload failed")),
                                                   Member("details", JStr(IF uploaded THEN "unlink" ELSE "uploadFile"))>>))
    /\ upPc' = [upPc EXCEPT !.at = "done"]
    /\ UNCHANGED <<acVars, refineVars, anVars, clVars, mdVars, coVars, trainVars, postVars>>

\* C25: once an upload request has completed, with a success or with a failure
\* at the download, the write or the upload to the file manager, the temp file
\* created for that request is no longer on disk.
C25_NoTempFileRemains ==
    upPc.at = "done" => upPc.path \notin disk

\* ---------------------------------------------------------------------------
\* ConnectSocials (src/app/components/ConnectSocials.tsx), handleConnect
\*
\* attempts[a] is the a-th call of handleConnect: at is where the call is,
\* interval tells whether its pollTimer is active, timeout whether its
\* 5-minute timer is still pending, ticks how many interval callbacks are
\* waiting for their fetch, and popup is authWindow ("null" when window.open
\* returned null).  The Connect button is disabled while isConnecting.
\* ---------------------------------------------------------------------------
MaxAttempts == 2
MaxTicks == 1

\* a click on Connect: setIsConnecting(true) and the fetch of the connect URL
HandleConnect ==
    /\ ~isConnecting
    /\ Len(attempts) < MaxAttempts
    /\ isConnecting' = TRUE
    /\ attempts' = Append(attempts, [at |-> "fetching", interval |-> FALSE, timeout |-> FALSE,
                                       ticks |-> 0, popup |-> "none"])
    /\ UNCHANGED <<acVars, refineVars, anVars, clVars, mdVars, upVars, trainVars, postVars>>

\* the connect URL request settles: a failure or an answer without url ends
\* the attempt, an url opens the popup and sets the interval and the timeout
ConnectResponds ==
    \E a \in DOMAIN attempts :
        /\ attempts[a].at = "fetching"
        /\ \E outcome \in {"error", "nourl", "open", "null"} :
             IF outcome \in {"error", "nourl"}
             THEN /\ isConnecting' = FALSE
                  /\ attempts' = [attempts EXCEPT ![a].at = "over"]
             ELSE /\ UNCHANGED isConnecting
                  /\ attempts' = [attempts EXCEPT ![a] = [at |-> "started", interval |-> TRUE,
                                                            timeout |-> TRUE, ticks |-> 0,
                                                            popup |-> outcome]]
    /\ UNCHANGED <<acVars, refineVars, anVars, clVars, mdVars, upVars, trainVars, postVars>>

\* the interval fires: the callback requests the accounts
PollTick ==
    \E a \in DOMAIN attempts :
        /\ attempts[a].interval
        /\ attempts[a].ticks < MaxTicks
        /\ attempts' = [attempts EXCEPT ![a].ticks = @ + 1]
        /\ UNCHANGED isConnecting
    /\ UNCHANGED <<acVars, refineVars, anVars, clVars, mdVars, upVars, trainVars, postVars>>

\* the accounts request of a callback settles: with an instagram account the
\* interval is cleared and the popup closed; otherwise, when the user has closed
\* the popup by now, the interval is cleared; both call setIsConnecting(false)
PollSettles ==
    \E a \in DOMAIN attempts :
        /\ attempts[a].ticks > 0
        /\ \E found \in BOOLEAN, closedByUser \in BOOLEAN :
             LET popup == IF attempts[a].popup = "open" /\ closedByUser
                          THEN "closed" ELSE attempts[a].popup
             IN  IF found
                 THEN /\ attempts' = [attempts EXCEPT ![a].interval = FALSE,
                                                      ![a].ticks = @ - 1,
                                                      ![a].popup = IF popup = "open" THEN "closed"
                                                                   ELSE popup]
                      /\ isConnecting' = FALSE
                 ELSE IF popup = "closed"
                 THEN /\ attempts' = [attempts EXCEPT ![a].interval = FALSE,
                                                      ![a].ticks = @ - 1,
                                                      ![a].popup = popup]
                      /\ isConnecting' = FALSE
                 ELSE /\ attempts' = [attempts EXCEPT ![a].ticks = @ - 1, ![a].popup = popup]
                      /\ UNCHANGED isConnecting
    /\ UNCHANGED <<acVars, refineVars, anVars, clVars, mdVars, upVars, trainVars, postVars>>

\* the 5-minute timer of an attempt fires; nothing ever clears that timer
TimeoutFires ==
    \E a \in DOMAIN attempts :
        /\ attempts[a].timeout
        /\ attempts' = [attempts EXCEPT ![a].interval = FALSE, ![a].timeout = FALSE]
        /\ isConnecting' = FALSE
    /\ UNCHANGED <<acVars, refineVars, anVars, clVars, mdVars, upVars, trainVars, postVars>>

SpecConnect ==
    /\ AllIdle({[state |-> "missing", entries |-> <<>>]})
    /\ [][HandleConnect \/ ConnectResponds \/ PollTick \/ PollSettles \/ TimeoutFires]_vars

\* C28: isConnecting is true whenever the account-polling interval of some
\* connect attempt is still active; no timer of an earlier attempt clears it
\* while a later attempt is polling.
C28_ConnectingWhilePolling ==
    \A a \in DOMAIN attempts : attempts[a].interval => isConnecting

\* ---------------------------------------------------------------------------
\* POST /api/tiktok/train (src/app/api/tiktok/train/route.ts)
\*
\* historyFile is data/tiktok_history.json: missing, text that JSON.parse
\* rejects ("corrupt"), a JSON value that is no array ("object"), or an array
\* of entries.  trainReqs are the requests of this server process in the order
\* of their arrival; the request number stands for the uuid of its entry.
\* Any number of requests can be waiting for generateContent at a time.
\* ---------------------------------------------------------------------------
MaxTrain == 3

\* the synchronous block "Save to History": the file as it is after
\* existsSync, readFileSync, JSON.parse (a failure starts fresh), push and
\* writeFileSync; push on a value that is no array throws
HistoryAfterFresh(content, entry) ==
    [ok |-> TRUE, v |-> [state |-> "array", entries |-> <<entry>>]]

HistoryAfter(content, entry) ==
    CASE content.state \in {"missing", "corrupt"} ->
             [ok |-> TRUE, v |-> [state |-> "array", entries |-> <<entry>>]]
      [] content.state = "array" ->
             [ok |-> TRUE, v |-> [state |-> "array", entries |-> Append(content.entries, entry)]]
      [] content.state = "object" -> Throws

\* POST up to its await of generateContent; the Vertex AI configuration is
\* that of the process, the same for all its requests
TrainStart ==
    /\ Len(trainReqs) < MaxTrain
    /\ \E fileUri \in {"", "gs://bucket/v.mp4", "https://files.example/v"},
          isGcsUri \in BOOLEAN, configured \in BOOLEAN :
         /\ trainReqs # <<>> => configured = trainReqs[1].configured
         /\ trainReqs' = Append(trainReqs,
               [fileUri |-> fileUri, configured |-> configured,
                status |-> IF fileUri = "" THEN 400
                           ELSE IF (isGcsUri \/ SubSeq(fileUri, 1, 5) = "gs://") /\ configured
                           THEN 0 ELSE 500])
    /\ UNCHANGED historyFile
    /\ UNCHANGED <<acVars, refineVars, anVars, clVars, mdVars, upVars, coVars, postVars>>

\* generateContent of a request settles: a rejection is answered with 500;
\* otherwise the entry is built and the history is read, extended and written
\* in one synchronous block, and the entry is returned
TrainAnalysed ==
    \E r \in DOMAIN trainReqs :
        /\ trainReqs[r].status = 0
        /\ \E resolved \in BOOLEAN :
             LET newEntry == [id |-> r, fileUri |-> trainReqs[r].fileUri]
                 written == HistoryAfter(historyFile, newEntry)
             IN  IF resolved /\ written.ok
                 THEN /\ historyFile' = written.v
                      /\ trainReqs' = [trainReqs EXCEPT ![r].status = 200]
                 ELSE /\ UNCHANGED historyFile
                      /\ trainReqs' = [trainReqs EXCEPT ![r].status = 500]
    /\ UNCHANGED <<acVars, refineVars, anVars, clVars, mdVars, upVars, coVars, postVars>>

SpecTrain ==
    /\ AllIdle({[state |-> "missing", entries |-> <<>>],
                [state |-> "corrupt", entries |-> <<>>],
                [state |-> "object", entries |-> <<>>],
                [state |-> "array", entries |-> <<>>],
                [state |-> "array", entries |-> <<[id |-> 0, fileUri |-> "gs://bucket/old.mp4"]>>]})
    /\ [][TrainStart \/ TrainAnalysed]_vars

\* C29: whatever the interleaving of the train requests of one server process,
\* every request answered with success has its entry in the history file from
\* then on, and no step removes an entry from a history file that holds an array.
C29_NoLostUpdate ==
    /\ [](\A r \in DOMAIN trainReqs :
             trainReqs[r].status = 200 =>
                 \E i \in DOMAIN historyFile.entries : historyFile.entries[i].id = r)
    /\ [][historyFile.state = "array" =>
             \A i \in DOMAIN historyFile.entries :
                 \E j \in DOMAIN historyFile'.entries :
                     historyFile'.entries[j] = historyFile.entries[i]]_vars

\* two requests overlapped (the one that arrived later stored its entry first)
\* and a third one followed; all three succeeded and the file holds an older
\* entry and theirs
C29_Witness ==
    /\ Len(trainReqs) = 3
    /\ \A r \in DOMAIN trainReqs : trainReqs[r].status = 200
    /\ Len(historyFile.entries) = 4
    /\ historyFile.entries[2].id = 2
    /\ historyFile.entries[3].id = 1

\* ---------------------------------------------------------------------------
\* POST /api/social/posts (src/app/api/social/posts/route.ts)
\*
\* postReq is the request with the configuration it meets (GETLATE_API_KEY
\* set or not, db defined or not), postData the settled fetch to the upstream
\* (GetLate), firestore the documents of the posts collection as pairs of id
\* and document.
\* ---------------------------------------------------------------------------

\* the response once the save of the local record has settled: a failing
\* setDoc is caught and logged, and the upstream data is returned either way
PostAnswerStrict(data, saved) ==
    IF saved THEN Json(200, data) ELSE Json(500, ErrorBody("Failed to create post"))

PostAnswer(data, saved) == Json(200, data)

\* POST up to its fetch: the key check, the body, the validation of platforms
\* and the payload (platforms.map throws on a string)
PostStart ==
    /\ postPc = "idle"
    /\ \E apiKey \in BOOLEAN, db \in BOOLEAN, parses \in BOOLEAN,
          platforms \in {Undefined, JArr(<<>>), JStr("instagram"),
                         JArr(<<JObj(<<Member("platform", JStr("instagram")),
                                       Member("accountId", JStr("a1"))>>)>>),
                         JArr(<<JObj(<<Member("platform", JStr("tiktok")),
                                       Member("accountId", JStr("a2"))>>),
                                JObj(<<Member("platform", JStr("instagram")),
                                       Member("accountId", JStr("a1"))>>)>>)},
          postType \in {Undefined, JStr("reel"), JStr("story")},
          mediaItems \in {Undefined,
                          JArr(<<JObj(<<Member("type", JStr("video")),
                                        Member("url", JStr("https://media.example/v.mp4"))>>)>>)} :
         /\ ~parses => platforms = Undefined /\ postType = Undefined /\ mediaItems = Undefined
         /\ postReq' = [apiKey |-> apiKey, db |-> db, parses |-> parses, platforms |-> platforms,
                        postType |-> postType, mediaItems |-> mediaItems]
         /\ IF ~apiKey
            THEN /\ postPc' = "done"
                 /\ postResponse' = Json(500, ErrorBody("GetLate API key not configured"))
            ELSE IF ~parses
            THEN /\ postPc' = "done"
                 /\ postResponse' = Json(500, ErrorBody("Failed to create post"))
            ELSE IF ~Truthy(platforms) \/ (IsArray(platforms) /\ Len(platforms.a) = 0)
            THEN /\ postPc' = "done"
                 /\ postResponse' = Json(400, ErrorBody("At least one platform is required"))
            ELSE IF ~IsArray(platforms)
            THEN /\ postPc' = "done"
                 /\ postResponse' = Json(500, ErrorBody("Failed to create post"))
            ELSE /\ postPc' = "fetching"
                 /\ postResponse' = NoResponse
    /\ UNCHANGED <<postData, firestore>>
    /\ UNCHANGED <<acVars, refineVars, anVars, clVars, mdVars, upVars, coVars, trainVars>>

\* the fetch to the upstream settles: a rejection goes to the catch, a
\* response that is not ok is passed on with its status, an ok response is
\* parsed and, with db and data._id, the local record is saved
PostUpstreamSettles ==
    /\ postPc = "fetching"
    /\ \E up \in {[t |-> "error"]}
               \cup [t : {"response"}, ok : {TRUE}, status : {200},
                     text : {Stringify(JObj(<<Member("_id", JStr("p1")),
                                             Member("status", JStr("scheduled"))>>)),
                             Stringify(JObj(<<Member("post", JObj(<<Member("_id", JStr("p1"))>>))>>)),
                             Stringify(JNull),
                             <<P("<html>")>>}]
               \cup [t : {"response"}, ok : {FALSE}, status : {400, 502},
                     text : {Stringify(JObj(<<Member("error", JStr("Invalid account"))>>)),
                             Stringify(JObj(<<Member("message", JStr("Rate limited"))>>)),
                             <<P("<html>")>>}] :
         /\ postData' = up
         /\ IF up.t = "error"
            THEN /\ postPc' = "done"
                 /\ postResponse' = Json(500, ErrorBody("Failed to create post"))
            ELSE LET parsed == JSONparse(up.text) IN
                 IF ~up.ok
                 THEN LET errorData == IF parsed.ok THEN parsed.v ELSE JObj(<<>>)
                          message == IF Truthy(Field(errorData, "error"))
                                     THEN Field(errorData, "error")
                                     ELSE IF Truthy(Field(errorData, "message"))
                                     THEN Field(errorData, "message")
                                     ELSE JStr("Failed to create post")
                      IN  /\ postPc' = "done"
                          /\ postResponse' = Json(up.status, JObj(<<Member("error", message),
                                                                   Member("details", errorData)>>))
                 ELSE IF ~parsed.ok \/ parsed.v = JNull
                 THEN /\ postPc' = "done"
                      /\ postResponse' = Json(500, ErrorBody("Failed to create post"))
                 ELSE IF postReq.db /\ Truthy(Field(parsed.v, "_id"))
                 THEN /\ postPc' = "saving"
                      /\ postResponse' = NoResponse
                 ELSE /\ postPc' = "done"
                      /\ postResponse' = PostAnswer(parsed.v, FALSE)
    /\ UNCHANGED <<postReq, firestore>>
    /\ UNCHANGED <<acVars, refineVars, anVars, clVars, mdVars, upVars, coVars, trainVars>>

\* setDoc settles: the document is the payload with _id, status, mediaItems
\* and postType (createdAt is left out); the data is returned in any case
PostSaved ==
    /\ postPc = "saving"
    /\ \E saved \in BOOLEAN :
         LET data == JSONparse(postData.text).v
             Specific(p) ==
                 IF postReq.postType = JStr("reel") /\ Field(p, "platform") = JStr("instagram")
                 THEN JObj(Append(p.o, Member("platformSpecificData",
                                              JObj(<<Member("mediaType", JStr("REELS"))>>))))
                 ELSE IF postReq.postType = JStr("story") /\ Field(p, "platform") = JStr("instagram")
                 THEN JObj(Append(p.o, Member("platformSpecificData",
                                              JObj(<<Member("contentType", JStr("story"))>>))))
                 ELSE p
             postPayload ==
                 <<Member("content", JStr("")),
                   Member("platforms", JArr([i \in 1..Len(postReq.platforms.a) |->
                                                Specific(postReq.platforms.a[i])]))>>
                 \o (IF Truthy(postReq.mediaItems)
                     THEN <<Member("mediaItems", postReq.mediaItems)>> ELSE <<>>)
             document ==
                 SetKey(SetKey(SetKey(SetKey(postPayload, "_id", Field(data, "_id")),
                                      "status", JStr("scheduled")),
                               "mediaItems", IF Truthy(postReq.mediaItems)
                                             THEN postReq.mediaItems ELSE JArr(<<>>)),
                        "postType", IF Truthy(postReq.postType)
                                    THEN postReq.postType ELSE JStr("feed"))
         IN  /\ firestore' = IF saved
                             THEN firestore \cup {[id |-> Field(data, "_id").s,
                                                   doc |-> JObj(document)]}
                             ELSE firestore
             /\ postResponse' = PostAnswer(data, saved)
    /\ postPc' = "done"
    /\ UNCHANGED <<postReq, postData>>
    /\ UNCHANGED <<acVars, refineVars, anVars, clVars, mdVars, upVars, coVars, trainVars>>

\* the two handlers that store what they are sent: the upload handler (temp
\* file, file manager) and the posts handler (upstream, posts collection)
SpecStorage ==
    /\ AllIdle({[state |-> "missing", entries |-> <<>>]})
    /\ [][\/ UploadStart \/ TempFileSettles \/ UploadFileSettles
          \/ PostStart \/ PostUpstreamSettles \/ PostSaved]_vars

\* C30: once the request is answered, an upstream response that is ok and
\* carries the created post as a JSON object is returned with status 200,
\* whether or not the local record could be saved; and a local record exists
\* only if the platforms passed the validation and the upstream answered ok.
C30_UpstreamDataReturned ==
    /\ (postPc = "done" /\ postData # Undefined /\ postData.t = "response" /\ postData.ok
           /\ JSONparse(postData.text).ok /\ JSONparse(postData.text).v.t = "obj")
        => postResponse = [status |-> 200, body |-> JSONparse(postData.text).v]
    /\ firestore # {}
        => /\ IsArray(postReq.platforms) /\ Len(postReq.platforms.a) > 0
           /\ postData.t = "response" /\ postData.ok
           /\ \A d \in firestore : d.id = Field(JSONparse(postData.text).v, "_id").s

\* the upstream accepted the post, the save of the local record failed, and
\* the request is answered
C30_Witness ==
    /\ postPc = "done"
    /\ postData # Undefined /\ postData.t = "response" /\ postData.ok
    /\ postReq.db
    /\ JSONparse(postData.text).ok
    /\ JSONparse(postData.text).v.t = "obj"
    /\ Truthy(Field(JSONparse(postData.text).v, "_id"))
    /\ firestore = {}
    /\ postResponse.status = 200
====
